---- MODULE Spec2Model ----
(***************************************************************************)
(* A model of the BOQ engine of adarshdivase-allwave/BINGO:                *)
(*   - the service functions generateBoq / refineBoq / validateBoq of      *)
(*     src/src/services/geminiService.ts, with the completion oracle, the  *)
(*     JSON parsing of its answer and the activity logger as environment;  *)
(*   - the user-management operations of userManagementService.ts;         *)
(*   - the React state machine of src/src/App.tsx (rooms, the active room, *)
(*     the calls in flight and the closures they captured).                *)
(* Two next-state relations share the service operators: SvcSpec runs one  *)
(* service call at a time over a wide set of oracle answers, Spec runs the *)
(* App handlers under every interleaving with the calls in flight.         *)
(***************************************************************************)
EXTENDS Integers, Sequences, FiniteSets, TLC

VARIABLES
    rooms,              \* App: useState<Room[]>
    activeRoomId,       \* App: useState<string|null>
    isRefining,         \* App: useState(false)
    roomToDelete,       \* App: useState<Room|null> (the id of the room)
    isConfirmModalOpen, \* App: useState(false)
    calls,              \* App: the async handlers suspended at their await
    nextRoomId,         \* the ids Math.random() has handed out so far
    events,             \* the user's clicks and keystrokes handled so far
    activityLog,        \* backend: the ActivityLog records created, in order
    users,              \* backend: the User records
    svc,                \* SvcSpec: the service call under way
    bootstrapConfig,    \* backend: the BootstrapConfig records
    cognitoUsers,       \* Cognito: the usernames signed up
    bootCalls,          \* BootSpec: the createBootstrapAdmin calls under way
    authGate,           \* AuthGate: its useState values and the position of checkAuthentication
    bootStatus,         \* Root and App: status / appState and the position of their check
    productService,     \* ProductService: products, isLoading, loadPromise, the fetches
    savedProject        \* backend: the rooms of the project saved last

appVars == <<rooms, activeRoomId, isRefining, roomToDelete, isConfirmModalOpen,
             calls, nextRoomId, events>>
bootVars == <<bootstrapConfig, cognitoUsers, bootCalls>>
pageVars == <<authGate, bootStatus, productService, savedProject>>
vars == <<rooms, activeRoomId, isRefining, roomToDelete, isConfirmModalOpen,
          calls, nextRoomId, events, activityLog, users, svc,
          bootstrapConfig, cognitoUsers, bootCalls,
          authGate, bootStatus, productService, savedProject>>

----------------------------------------------------------------------------
(* Bounds of the model *)

MaxRooms == 2
MaxRoomIds == 2
MaxCalls == 2
MaxEvents == 4
MaxBoqLen == 1
MaxLogs == 1

----------------------------------------------------------------------------
(* JavaScript values *)

\* null / undefined for a value of any type: the empty tuple; a present value
\* is the one-element tuple holding it.
Null == <<>>
Some(x) == <<x>>

\* A JavaScript number: an integer or NaN.
Num(n) == [nan |-> FALSE, v |-> n]
NaN == [nan |-> TRUE, v |-> 0]

\* a * b on JavaScript numbers
JsMul(a, b) == IF a.nan \/ b.nan THEN NaN ELSE Num(a.v * b.v)

\* item[f] as an operand of *: a missing property is undefined, and
\* ToNumber(undefined) is NaN
ToNumber(item, f) == IF f \in DOMAIN item THEN item[f] ELSE NaN

\* { ...a, ...b }
Spread(a, b) ==
    [f \in (DOMAIN a) \cup (DOMAIN b) |-> IF f \in DOMAIN b THEN b[f] ELSE a[f]]

\* the record with no property: {}
EmptyObject == [f \in {} |-> f]

Range(xs) == {xs[i] : i \in DOMAIN xs}

----------------------------------------------------------------------------
(* BoqItem *)

RequiredFields ==
    {"category", "itemDescription", "keyRemarks", "brand", "model", "quantity",
     "unitPrice", "totalPrice", "source", "priceSource"}

Item(cat, brand, q, u, t, src) ==
    [category |-> cat, itemDescription |-> "desc", keyRemarks |-> "remarks",
     brand |-> brand, model |-> "model", quantity |-> Num(q),
     unitPrice |-> Num(u), totalPrice |-> Num(t), source |-> src,
     priceSource |-> IF src = "database" THEN "database" ELSE "estimated"]

\* an item as the oracle may send it: without one of its properties
Without(item, f) == [g \in (DOMAIN item) \ {f} |-> item[g]]

----------------------------------------------------------------------------
(* The completion oracle and the parsing of its answer *)

\* generateContent rejected (network error, quota, bad key)
Reject(e) == [kind |-> "reject", error |-> e]
\* generateContent resolved: response.response.text(), wrapped in a code
\* fence or not
Text(fenced, payload) == [kind |-> "text", fenced |-> fenced, payload |-> payload]

Garbage == [json |-> "garbage"]
JsonNull == [json |-> "null"]
JsonArray(items) == [json |-> "array", items |-> items]
JsonObject(obj) == [json |-> "object", obj |-> obj]

Return(v) == [kind |-> "return", value |-> v]
Throw(e) == [kind |-> "throw", error |-> e]

\* geminiService.ts:27-29: strips a leading ```json and a trailing ```
cleanJsonOutput(text) == [text EXCEPT !.fenced = FALSE]

\* JSON.parse: a SyntaxError on a code fence or on text that is no JSON
JSONparse(text) ==
    IF text.fenced \/ text.payload.json = "garbage"
    THEN Throw("SyntaxError")
    ELSE Return(text.payload)

----------------------------------------------------------------------------
(* The activity logger, activityLogService.ts *)

\* what the logger's three awaits do: getCurrentUser (in the caller), the
\* fetch of api.ipify.org, ActivityLog.create
LogOutcomes == [user : {"ok", "reject"}, ip : {"ok", "reject"}, create : {"ok", "reject"}]
LogAllOk == [user |-> "ok", ip |-> "ok", create |-> "ok"]

getClientIpAddress(lg) == IF lg.ip = "ok" THEN "ip" ELSE "unknown"

\* logActivity without its try/catch: a rejected create reaches the caller
logActivity_rethrows(params, lg) ==
    IF lg.create = "ok"
    THEN [kind |-> "return",
          created |-> Some(Spread(params, [ipAddress |-> getClientIpAddress(lg)]))]
    ELSE [kind |-> "throw", error |-> "LogError", created |-> Null]

\* logActivity: created is the ActivityLog record written, if any
logActivity(params, lg) ==
    IF lg.create = "ok"
    THEN [kind |-> "return",
          created |-> Some(Spread(params, [ipAddress |-> getClientIpAddress(lg)]))]
    ELSE [kind |-> "return", created |-> Null]

\* the try { getCurrentUser; logActivity } catch (logError) {} of the three
\* BOQ functions: the record written, if any
LogGenerationFailed(resourceType, lg) ==
    IF lg.user = "reject" THEN Null
    ELSE logActivity([action |-> "GENERATION_FAILED", resourceType |-> resourceType], lg).created

----------------------------------------------------------------------------
(* generateBoq, refineBoq, validateBoq: geminiService.ts *)

\* the map without its recomputation: the oracle's totalPrice is kept
RecomputeTotal_trusted(item) == item

\* boq.map(item => ({ ...item, totalPrice: item.quantity * item.unitPrice }))
RecomputeTotal(item) ==
    Spread(item, [totalPrice |-> JsMul(ToNumber(item, "quantity"), ToNumber(item, "unitPrice"))])

MapRecomputeTotal(boq) == [i \in DOMAIN boq |-> RecomputeTotal(boq[i])]

\* the try block of generateBoq and of refineBoq, after the oracle settled
ParseBoq(o) ==
    IF o.kind = "reject" THEN Throw(o.error)
    ELSE LET p == JSONparse(cleanJsonOutput(o)) IN
         IF p.kind = "throw" THEN p
         ELSE IF p.value.json # "array" THEN Throw("TypeError")
         ELSE Return(MapRecomputeTotal(p.value.items))

generateBoq(answers, o, lg) ==
    LET t == ParseBoq(o) IN
    IF t.kind = "return" THEN [kind |-> "return", value |-> t.value, logged |-> Null]
    ELSE [kind |-> "throw", error |-> t.error, logged |-> LogGenerationFailed("BOQ", lg)]

refineBoq(currentBoq, refinementPrompt, o, lg) ==
    LET t == ParseBoq(o) IN
    IF t.kind = "return" THEN [kind |-> "return", value |-> t.value, logged |-> Null]
    ELSE [kind |-> "throw", error |-> t.error, logged |-> LogGenerationFailed("BOQ_REFINE", lg)]

ValidationFailed ==
    [isValid |-> FALSE,
     warnings |-> <<"AI validation failed to run. Please check the BOQ manually.">>,
     suggestions |-> <<"Retry validation or perform manual review.">>,
     missingComponents |-> <<>>,
     score |-> 0,
     complianceNotes |-> <<"Validation system error - manual review required">>]

\* result.f || d
OrElse(result, f, d) == IF f \in DOMAIN result THEN result[f] ELSE d

\* the try block of validateBoq, after the oracle settled
ParseValidation(o) ==
    IF o.kind = "reject" THEN Throw(o.error)
    ELSE LET p == JSONparse(cleanJsonOutput(o)) IN
         IF p.kind = "throw" THEN p
         ELSE IF p.value.json = "null" THEN Throw("TypeError")
         ELSE LET result == IF p.value.json = "object" THEN p.value.obj ELSE EmptyObject
              IN Return(Spread(
                     IF "isValid" \in DOMAIN result
                     THEN [isValid |-> result.isValid] ELSE EmptyObject,
                     [warnings |-> OrElse(result, "warnings", <<>>),
                      suggestions |-> OrElse(result, "suggestions", <<>>),
                      missingComponents |-> OrElse(result, "missingComponents", <<>>),
                      score |-> OrElse(result, "score", 0),
                      complianceNotes |-> OrElse(result, "complianceNotes", <<>>)]))

\* validateBoq with the catch of generateBoq, which throws the error again
validateBoq_rethrows(boq, requirements, o, lg) ==
    LET t == ParseValidation(o) IN
    IF t.kind = "return" THEN [kind |-> "return", value |-> t.value, logged |-> Null]
    ELSE [kind |-> "throw", error |-> t.error,
          logged |-> LogGenerationFailed("BOQ_VALIDATE", lg)]

validateBoq(boq, requirements, o, lg) ==
    LET t == ParseValidation(o) IN
    IF t.kind = "return" THEN [kind |-> "return", value |-> t.value, logged |-> Null]
    ELSE [kind |-> "return", value |-> ValidationFailed,
          logged |-> LogGenerationFailed("BOQ_VALIDATE", lg)]

----------------------------------------------------------------------------
(* The catalog and the sourcing report of generateBoq *)

\* String.prototype.toLowerCase on the brand names of the model
toLowerCase(str) ==
    CASE str \in {"JBL", "jbl"} -> "jbl"
      [] str \in {"Shure", "SHURE"} -> "shure"
      [] str \in {"Samsung", "samsung"} -> "samsung"
      [] str \in {"Chief"} -> "chief"
      [] str \in {"LG"} -> "lg"
      [] OTHER -> str

\* the catalog of the specification's brand-lock example: JBL speakers but no
\* JBL microphone
productDatabase ==
    << [brand |-> "Samsung", category |-> "Display"],
       [brand |-> "JBL", category |-> "Audio - Speakers"],
       [brand |-> "Shure", category |-> "Audio - Microphones"],
       [brand |-> "Chief", category |-> "Mounts & Racks"] >>

\* searchDatabase(brand, category), both given: the matching records
searchDatabase(brand, category) ==
    {i \in DOMAIN productDatabase :
        /\ (brand = "" \/ toLowerCase(productDatabase[i].brand) = toLowerCase(brand))
        /\ (category = "" \/ productDatabase[i].category = category)}

\* Array.isArray(answers[key]) ? answers[key] : []
BrandList(answers, key) == IF key \in DOMAIN answers THEN answers[key] ELSE <<>>

\* the audio sub-categories fall back to answers.audioBrands
AudioBrandList(answers, key) ==
    IF key \in DOMAIN answers THEN answers[key] ELSE BrandList(answers, "audioBrands")

\* brandPreferences, each list before its join(', ')
brandPreferences(answers) ==
    [displays |-> BrandList(answers, "displayBrands"),
     mounts |-> BrandList(answers, "mountBrands"),
     racks |-> BrandList(answers, "rackBrands"),
     microphones |-> AudioBrandList(answers, "microphoneBrands"),
     dspAmplifiers |-> AudioBrandList(answers, "dspAmplifierBrands"),
     speakers |-> AudioBrandList(answers, "speakerBrands"),
     vc |-> BrandList(answers, "vcBrands"),
     connectivity |-> BrandList(answers, "connectivityBrands"),
     control |-> BrandList(answers, "controlBrands")]

\* the sub-categories the availability report covers, in the order of the
\* code, each with the catalog label it is looked up under
ReportedSubCategories ==
    << [key |-> "displays", label |-> "Display"],
       [key |-> "microphones", label |-> "Audio - Microphones"],
       [key |-> "dspAmplifiers", label |-> "Audio - DSP & Amplification"],
       [key |-> "speakers", label |-> "Audio - Speakers"],
       [key |-> "vc", label |-> "Video Conferencing & Cameras"],
       [key |-> "mounts", label |-> "Mounts & Racks"] >>

\* the lines one sub-category adds to dbAvailabilityReport: joined with ', '
\* a list is falsy when it is empty or holds the empty string alone
ReportLines(prefs, sub) ==
    LET brands == prefs[sub.key] IN
    IF brands = <<>> \/ brands = <<"">> THEN <<>>
    ELSE [i \in DOMAIN brands |->
            [brand |-> brands[i], label |-> sub.label,
             directive |-> IF searchDatabase(brands[i], sub.label) # {}
                           THEN "USE THESE FIRST"
                           ELSE "Generate from web knowledge"]]

RECURSIVE ReportFrom(_, _)
ReportFrom(prefs, k) ==
    IF k > Len(ReportedSubCategories) THEN <<>>
    ELSE ReportLines(prefs, ReportedSubCategories[k]) \o ReportFrom(prefs, k + 1)

dbAvailabilityReport(answers) == ReportFrom(brandPreferences(answers), 1)

----------------------------------------------------------------------------
(* User management: userManagementService.ts *)

\* what the backend does to one operation: signUp (createUser only) and the
\* write to the User table
DbOutcomes == [signUp : {"ok", "reject"}, write : {"ok", "reject"}]

UserOf(tbl, id) == CHOOSE u \in tbl : u.id = id

\* each operation: the table afterwards, the record logged and the result
createUser(tbl, email, role, db, lg) ==
    IF db.signUp = "reject" THEN [users |-> tbl, logged |-> Null, result |-> Throw("SignUpError")]
    ELSE IF db.write = "reject" \/ \E u \in tbl : u.id = email
    THEN [users |-> tbl, logged |-> Null, result |-> Throw("WriteError")]
    ELSE LET newUser == [id |-> email, role |-> role, status |-> "ACTIVE"]
             l == logActivity([action |-> "USER_CREATED", resourceType |-> "User"], lg)
         IN [users |-> tbl \cup {newUser}, logged |-> l.created,
             result |-> IF l.kind = "throw" THEN Throw(l.error) ELSE Return(newUser)]

updateUserRole(tbl, userId, newRole, db, lg) ==
    IF db.write = "reject" \/ ~ \E u \in tbl : u.id = userId
    THEN [users |-> tbl, logged |-> Null, result |-> Throw("WriteError")]
    ELSE LET updatedUser == [UserOf(tbl, userId) EXCEPT !.role = newRole]
             l == logActivity([action |-> "ROLE_CHANGED", resourceType |-> "User"], lg)
         IN [users |-> (tbl \ {UserOf(tbl, userId)}) \cup {updatedUser}, logged |-> l.created,
             result |-> IF l.kind = "throw" THEN Throw(l.error) ELSE Return(updatedUser)]

updateUserStatus(tbl, userId, newStatus, db, lg) ==
    IF db.write = "reject" \/ ~ \E u \in tbl : u.id = userId
    THEN [users |-> tbl, logged |-> Null, result |-> Throw("WriteError")]
    ELSE LET updatedUser == [UserOf(tbl, userId) EXCEPT !.status = newStatus]
             l == logActivity([action |-> IF newStatus = "SUSPENDED" THEN "USER_SUSPENDED"
                                          ELSE "USER_UPDATED",
                               resourceType |-> "User"], lg)
         IN [users |-> (tbl \ {UserOf(tbl, userId)}) \cup {updatedUser}, logged |-> l.created,
             result |-> IF l.kind = "throw" THEN Throw(l.error) ELSE Return(updatedUser)]

deleteUserAccount(tbl, userId, db, lg) ==
    IF db.write = "reject" \/ ~ \E u \in tbl : u.id = userId
    THEN [users |-> tbl, logged |-> Null, result |-> Throw("WriteError")]
    ELSE LET l == logActivity([action |-> "USER_DELETED", resourceType |-> "User"], lg)
         IN [users |-> tbl \ {UserOf(tbl, userId)}, logged |-> l.created,
             result |-> IF l.kind = "throw" THEN Throw(l.error) ELSE Return(TRUE)]

----------------------------------------------------------------------------
(* The inputs of the service calls *)

GoodDisplay == Item("Display", "Samsung", 1, 3, 3, "database")
GoodMount == Item("Mounts & Racks", "Chief", 1, 1, 1, "database")
ShureMic == Item("Audio - Microphones", "Shure", 2, 2, 4, "database")
JblMic == Item("Audio - Microphones", "JBL", 2, 2, 4, "web")

\* the arrays the oracle may answer with: well-formed ones, one with a wrong
\* total, ones with an item that lacks a required property, ones with an item
\* of no positive quantity
OracleArrays ==
    {<<>>,
     <<GoodDisplay>>,
     <<GoodDisplay, GoodMount>>,
     <<JblMic>>,
     <<ShureMic>>,
     <<GoodDisplay, ShureMic>>,
     <<Item("Display", "LG", 2, 3, 7, "web")>>,
     <<Without(GoodMount, "keyRemarks")>>,
     <<GoodDisplay, Without(ShureMic, "quantity")>>,
     <<Item("Display", "Samsung", 0, 3, 0, "database")>>,
     <<Item("Mounts & Racks", "Chief", -1, 1, -1, "web"), GoodDisplay>>}

OracleErrors == {"NetworkError", "QuotaError"}

BoqOutcomes ==
    {Reject(e) : e \in OracleErrors}
    \cup {Text(f, Garbage) : f \in BOOLEAN}
    \cup {Text(FALSE, JsonNull)}
    \cup {Text(FALSE, JsonArray(xs)) : xs \in OracleArrays}
    \cup {Text(TRUE, JsonArray(<<GoodDisplay, GoodMount>>))}

Audit(isValid, score) ==
    [isValid |-> isValid, warnings |-> <<>>, suggestions |-> <<>>,
     missingComponents |-> <<>>, score |-> score, complianceNotes |-> <<>>]

ValidationOutcomes ==
    {Reject(e) : e \in OracleErrors}
    \cup {Text(f, Garbage) : f \in BOOLEAN}
    \cup {Text(FALSE, JsonNull)}
    \cup {Text(f, JsonObject(obj)) : f \in BOOLEAN,
            obj \in {Audit(TRUE, 100), Audit(TRUE, 59), Audit(FALSE, 40),
                     [warnings |-> <<"No DSP with AEC">>]}}

SvcAnswers ==
    {EmptyObject,
     [microphoneBrands |-> <<"JBL">>],
     [audioBrands |-> <<"jbl">>],
     [displayBrands |-> <<"samsung">>, mountBrands |-> <<"Chief">>],
     [displayBrands |-> <<"LG", "Samsung">>],
     [microphoneBrands |-> <<"SHURE">>, speakerBrands |-> <<"JBL">>]}

SvcBoqs ==
    {<<>>, <<GoodDisplay>>, <<GoodDisplay, GoodMount>>, <<GoodDisplay, ShureMic>>,
     <<GoodMount, ShureMic>>}

\* the instruction handed to refineBoq, 'change audio to Bose': the category it
\* touches and the brand it asks for
RefinementPrompt == [touches |-> "Audio - Microphones", brand |-> "Bose"]

UserIds == {"u1"}
Roles == {"ADMIN", "USER"}
Statuses == {"ACTIVE", "INACTIVE", "SUSPENDED"}

----------------------------------------------------------------------------
(* The React state of App.tsx *)

\* the questionnaire answers of a room: the default of handleAddRoom, a
\* template, answers the user edited, and answers whose values are all empty
AnswerValues == {"default", "template", "edited", "blank"}

\* a room name: `Room ${n}`, a template's name or a name the user typed, with
\* the " (Copy)" suffixes of duplication counted
RoomName(text, n) == [text |-> text, n |-> n, copies |-> 0]

NewRoom(id, name, answers) ==
    [id |-> id, name |-> name, answers |-> answers, boq |-> Null,
     isLoading |-> FALSE, error |-> Null, isValidating |-> FALSE,
     validationResult |-> Null]

\* rooms.find(room => room.id === activeRoomId)
HasRoom(rs, idOpt) == idOpt # Null /\ \E i \in DOMAIN rs : rs[i].id = idOpt[1]
IndexOf(rs, idOpt) == CHOOSE i \in DOMAIN rs : rs[i].id = idOpt[1]
RoomOf(rs, idOpt) == rs[IndexOf(rs, idOpt)]
activeRoom == RoomOf(rooms, activeRoomId)

\* rs.map(r => r.id === id ? { ...r, ...changes } : r)
MapRoom(rs, idOpt, changes) ==
    [i \in DOMAIN rs |->
        IF idOpt # Null /\ rs[i].id = idOpt[1] THEN Spread(rs[i], changes) ELSE rs[i]]

\* xs without its element at index k
RemoveAt(xs, k) == [i \in 1..(Len(xs) - 1) |-> IF i < k THEN xs[i] ELSE xs[i + 1]]

\* the closure of an async handler suspended at its await: the rooms and the
\* activeRoomId of the render that created it, the argument of the service
\* call, and the oracle's answer once it has settled
Call(kind, arg) ==
    [kind |-> kind, rooms |-> rooms, activeRoomId |-> activeRoomId, arg |-> arg,
     oracle |-> Null]

CanStartCall == Len(calls) < MaxCalls

AppInit ==
    /\ rooms = <<>>
    /\ activeRoomId = Null
    /\ isRefining = FALSE
    /\ roomToDelete = Null
    /\ isConfirmModalOpen = FALSE
    /\ calls = <<>>
    /\ nextRoomId = 1
    /\ events = 0

\* one more event of the user is handled
UserEvent == events < MaxEvents /\ events' = events + 1

\* templateAnswers is {} ("blank", with no templateName) or a template's answers
handleAddRoom(templateAnswers) ==
    /\ UserEvent
    /\ Len(rooms) < MaxRooms
    /\ nextRoomId <= MaxRoomIds
    /\ rooms' = Append(rooms,
                  IF templateAnswers = "blank"
                  THEN NewRoom(nextRoomId, RoomName("Room", Len(rooms) + 1), "default")
                  ELSE NewRoom(nextRoomId, RoomName("Template", 0), templateAnswers))
    /\ activeRoomId' = Some(nextRoomId)
    /\ nextRoomId' = nextRoomId + 1
    /\ UNCHANGED <<isRefining, roomToDelete, isConfirmModalOpen, calls, activityLog, users, svc, bootVars, pageVars>>

handleDuplicateRoom(id) ==
    /\ UserEvent
    /\ Len(rooms) < MaxRooms
    /\ nextRoomId <= MaxRoomIds
    /\ HasRoom(rooms, Some(id))
    /\ LET k == IndexOf(rooms, Some(id))
           roomToDuplicate == rooms[k]
           newRoom == [roomToDuplicate EXCEPT
                          !.id = nextRoomId,
                          !.name = [roomToDuplicate.name EXCEPT !.copies = @ + 1],
                          !.isValidating = FALSE,
                          !.validationResult = Null]
       IN rooms' = SubSeq(rooms, 1, k) \o <<newRoom>> \o SubSeq(rooms, k + 1, Len(rooms))
    /\ activeRoomId' = Some(nextRoomId)
    /\ nextRoomId' = nextRoomId + 1
    /\ UNCHANGED <<isRefining, roomToDelete, isConfirmModalOpen, calls, activityLog, users, svc, bootVars, pageVars>>

handleDeleteRequest(id) ==
    /\ UserEvent
    /\ HasRoom(rooms, Some(id))
    /\ ~isConfirmModalOpen
    /\ roomToDelete' = Some(id)
    /\ isConfirmModalOpen' = TRUE
    /\ UNCHANGED <<rooms, activeRoomId, isRefining, calls, nextRoomId, activityLog, users, svc, bootVars, pageVars>>

handleConfirmDelete ==
    /\ UserEvent
    /\ isConfirmModalOpen
    /\ roomToDelete # Null
    /\ LET keep == {i \in DOMAIN rooms : rooms[i].id # roomToDelete[1]}
           newRooms == IF keep = DOMAIN rooms THEN rooms
                       ELSE RemoveAt(rooms, IndexOf(rooms, roomToDelete))
       IN /\ rooms' = newRooms
          /\ activeRoomId' = IF activeRoomId = roomToDelete
                             THEN (IF Len(newRooms) > 0 THEN Some(newRooms[1].id) ELSE Null)
                             ELSE activeRoomId
    /\ isConfirmModalOpen' = FALSE
    /\ roomToDelete' = Null
    /\ UNCHANGED <<isRefining, calls, nextRoomId, activityLog, users, svc, bootVars, pageVars>>

\* RoomCard onSelect={setActiveRoomId}
SelectRoom(id) ==
    /\ UserEvent
    /\ HasRoom(rooms, Some(id))
    /\ activeRoomId # Some(id)
    /\ activeRoomId' = Some(id)
    /\ UNCHANGED <<rooms, isRefining, roomToDelete, isConfirmModalOpen, calls, nextRoomId,
                   activityLog, users, svc, bootVars, pageVars>>

handleAnswersChange(answers) ==
    /\ UserEvent
    /\ activeRoomId # Null
    /\ HasRoom(rooms, activeRoomId)
    /\ rooms' = MapRoom(rooms, activeRoomId, [answers |-> answers, validationResult |-> Null])
    /\ UNCHANGED <<activeRoomId, isRefining, roomToDelete, isConfirmModalOpen, calls,
                   nextRoomId, activityLog, users, svc, bootVars, pageVars>>

updateRoomName(id, newName) ==
    /\ UserEvent
    /\ HasRoom(rooms, Some(id))
    /\ rooms' = MapRoom(rooms, Some(id), [name |-> newName])
    /\ UNCHANGED <<activeRoomId, isRefining, roomToDelete, isConfirmModalOpen, calls,
                   nextRoomId, activityLog, users, svc, bootVars, pageVars>>

\* the Generate button: disabled={activeRoom.isLoading || every answer empty}
GenerateEnabled ==
    /\ HasRoom(rooms, activeRoomId)
    /\ ~activeRoom.isLoading
    /\ activeRoom.answers # "blank"

\* BoqDisplay (not in the sources) gets isRefining and isValidating and is taken
\* to offer Refine and Validate only while neither is set
BoqDisplayEnabled ==
    /\ HasRoom(rooms, activeRoomId)
    /\ ~isRefining
    /\ ~activeRoom.isValidating

\* handleGenerateBoq, up to its await
handleGenerateBoq ==
    /\ UserEvent
    /\ GenerateEnabled
    /\ CanStartCall
    /\ rooms' = MapRoom(rooms, activeRoomId,
                        [isLoading |-> TRUE, validationResult |-> Null, error |-> Null])
    /\ calls' = Append(calls, Call("generate", activeRoom.answers))
    /\ UNCHANGED <<activeRoomId, isRefining, roomToDelete, isConfirmModalOpen, nextRoomId,
                   activityLog, users, svc, bootVars, pageVars>>

\* handleValidateBoq, up to its await
handleValidateBoq ==
    /\ UserEvent
    /\ BoqDisplayEnabled
    /\ activeRoom.boq # Null
    /\ CanStartCall
    /\ rooms' = MapRoom(rooms, activeRoomId,
                        [isValidating |-> TRUE, validationResult |-> Null, error |-> Null])
    /\ calls' = Append(calls, Call("validate", activeRoom.boq[1]))
    /\ UNCHANGED <<activeRoomId, isRefining, roomToDelete, isConfirmModalOpen, nextRoomId,
                   activityLog, users, svc, bootVars, pageVars>>

\* handleRefineBoq, up to its await
handleRefineBoq ==
    /\ UserEvent
    /\ BoqDisplayEnabled
    /\ CanStartCall
    /\ isRefining' = TRUE
    /\ rooms' = MapRoom(rooms, activeRoomId, [validationResult |-> Null])
    /\ calls' = Append(calls, Call("refine",
                   IF activeRoom.boq = Null THEN <<>> ELSE activeRoom.boq[1]))
    /\ UNCHANGED <<activeRoomId, roomToDelete, isConfirmModalOpen, nextRoomId,
                   activityLog, users, svc, bootVars, pageVars>>

\* what the user may type into a row of the BOQ table
ItemUpdates ==
    {[quantity |-> Num(3)], [margin |-> Num(-5)]}

\* if (updatedValues.margin !== undefined && updatedValues.margin < 0) margin = 0
ClampMargin(updatedValues) ==
    IF "margin" \in DOMAIN updatedValues /\ updatedValues.margin.v < 0
    THEN Spread(updatedValues, [margin |-> Num(0)])
    ELSE updatedValues

handleBoqItemUpdate(itemIndex, updatedValues) ==
    /\ UserEvent
    /\ HasRoom(rooms, activeRoomId)
    /\ activeRoom.boq # Null
    /\ itemIndex \in DOMAIN activeRoom.boq[1]
    /\ LET newBoq == [activeRoom.boq[1] EXCEPT
                         ![itemIndex] = Spread(@, ClampMargin(updatedValues))]
       IN rooms' = MapRoom(rooms, activeRoomId,
                           [boq |-> Some(newBoq), validationResult |-> Null])
    /\ UNCHANGED <<activeRoomId, isRefining, roomToDelete, isConfirmModalOpen, calls,
                   nextRoomId, activityLog, users, svc, bootVars, pageVars>>

handleBoqItemDelete(itemIndex) ==
    /\ UserEvent
    /\ HasRoom(rooms, activeRoomId)
    /\ activeRoom.boq # Null
    /\ itemIndex \in DOMAIN activeRoom.boq[1]
    /\ rooms' = MapRoom(rooms, activeRoomId,
                        [boq |-> Some(RemoveAt(activeRoom.boq[1], itemIndex)),
                         validationResult |-> Null])
    /\ UNCHANGED <<activeRoomId, isRefining, roomToDelete, isConfirmModalOpen, calls,
                   nextRoomId, activityLog, users, svc, bootVars, pageVars>>

NewItem ==
    [category |-> "", itemDescription |-> "New Item",
     keyRemarks |-> "Manually added item.", brand |-> "", model |-> "",
     quantity |-> Num(1), unitPrice |-> Num(0), totalPrice |-> Num(0),
     source |-> "web", priceSource |-> "estimated"]

handleBoqItemAdd ==
    /\ UserEvent
    /\ HasRoom(rooms, activeRoomId)
    /\ LET currentBoq == IF activeRoom.boq = Null THEN <<>> ELSE activeRoom.boq[1]
       IN /\ Len(currentBoq) < MaxBoqLen
          /\ rooms' = MapRoom(rooms, activeRoomId,
                              [boq |-> Some(Append(currentBoq, NewItem)),
                               validationResult |-> Null])
    /\ UNCHANGED <<activeRoomId, isRefining, roomToDelete, isConfirmModalOpen, calls,
                   nextRoomId, activityLog, users, svc, bootVars, pageVars>>

----------------------------------------------------------------------------
(* The oracle answering a call in flight, and the handlers resuming *)

\* the answers to generate and refine in the App: a rejection, text that is no
\* JSON, a fenced array of one item with a wrong total
AppBoqOutcomes ==
    {Reject("NetworkError"),
     Text(FALSE, Garbage),
     Text(TRUE, JsonArray(<<Item("Display", "LG", 2, 3, 7, "web")>>))}

AppValidationOutcomes ==
    {Reject("NetworkError"),
     Text(FALSE, Garbage),
     Text(FALSE, JsonObject(Audit(TRUE, 100)))}

\* the promise of generateContent settles
OracleSettles(k) ==
    /\ k \in DOMAIN calls
    /\ calls[k].oracle = Null
    /\ \E o \in IF calls[k].kind = "validate" THEN AppValidationOutcomes ELSE AppBoqOutcomes :
          calls' = [calls EXCEPT ![k].oracle = Some(o)]
    /\ UNCHANGED <<events, rooms, activeRoomId, isRefining, roomToDelete, isConfirmModalOpen,
                   nextRoomId, activityLog, users, svc, bootVars, pageVars>>

\* the ActivityLog table after a service call that logged `logged`
Logged(logged) == IF logged = Null THEN activityLog ELSE Append(activityLog, logged[1])

ErrorMessage(prefix, error) == Some([prefix |-> prefix, message |-> error])

\* handleGenerateBoq from its await on: the try's setRooms(prevRooms => ...) or
\* the catch's setRooms(rooms.map(...)) over the rooms of its closure
GenerateResumes(k) ==
    /\ k \in DOMAIN calls
    /\ calls[k].kind = "generate"
    /\ calls[k].oracle # Null
    /\ \E lg \in LogOutcomes :
          LET c == calls[k]
              res == generateBoq(c.arg, c.oracle[1], lg)
          IN /\ rooms' = IF res.kind = "return"
                         THEN MapRoom(rooms, c.activeRoomId,
                                      [boq |-> Some(res.value), isLoading |-> FALSE])
                         ELSE MapRoom(c.rooms, c.activeRoomId,
                                      [isLoading |-> FALSE,
                                       error |-> ErrorMessage("Operation failed", res.error)])
             /\ activityLog' = Logged(res.logged)
             /\ Len(activityLog') <= MaxLogs
    /\ calls' = RemoveAt(calls, k)
    /\ UNCHANGED <<events, activeRoomId, isRefining, roomToDelete, isConfirmModalOpen, nextRoomId,
                   users, svc, bootVars, pageVars>>

\* handleValidateBoq from its await on
ValidateResumes(k) ==
    /\ k \in DOMAIN calls
    /\ calls[k].kind = "validate"
    /\ calls[k].oracle # Null
    /\ \E lg \in LogOutcomes :
          LET c == calls[k]
              res == validateBoq(c.arg, RoomOf(c.rooms, c.activeRoomId).answers, c.oracle[1], lg)
          IN /\ rooms' = IF res.kind = "return"
                         THEN MapRoom(rooms, c.activeRoomId,
                                      [isValidating |-> FALSE,
                                       validationResult |-> Some(res.value)])
                         ELSE MapRoom(c.rooms, c.activeRoomId,
                                      [isValidating |-> FALSE,
                                       error |-> ErrorMessage("Validation failed", res.error)])
             /\ activityLog' = Logged(res.logged)
             /\ Len(activityLog') <= MaxLogs
    /\ calls' = RemoveAt(calls, k)
    /\ UNCHANGED <<events, activeRoomId, isRefining, roomToDelete, isConfirmModalOpen, nextRoomId,
                   users, svc, bootVars, pageVars>>

\* handleRefineBoq from its await on: both setRooms map the rooms of the
\* closure; finally setIsRefining(false)
RefineResumes(k) ==
    /\ k \in DOMAIN calls
    /\ calls[k].kind = "refine"
    /\ calls[k].oracle # Null
    /\ \E lg \in LogOutcomes :
          LET c == calls[k]
              res == refineBoq(c.arg, RefinementPrompt, c.oracle[1], lg)
          IN /\ rooms' = IF res.kind = "return"
                         THEN MapRoom(c.rooms, c.activeRoomId,
                                      [boq |-> Some(res.value), error |-> Null])
                         ELSE MapRoom(c.rooms, c.activeRoomId,
                                      [error |-> ErrorMessage("Failed to refine", res.error)])
             /\ activityLog' = Logged(res.logged)
             /\ Len(activityLog') <= MaxLogs
    /\ isRefining' = FALSE
    /\ calls' = RemoveAt(calls, k)
    /\ UNCHANGED <<events, activeRoomId, roomToDelete, isConfirmModalOpen, nextRoomId, users, svc, bootVars, pageVars>>

----------------------------------------------------------------------------
(* The App under every interleaving *)

RoomIds == 1..MaxRoomIds

SvcIdle == [pc |-> "idle"]

\* the callers of createBootstrapAdmin: browser sessions on the bootstrap page
Callers == {"c1", "c2"}

\* nothing bootstrapped, nobody signed up, no call under way
BootIdle ==
    /\ bootstrapConfig = {}
    /\ cognitoUsers = {}
    /\ bootCalls = [c \in Callers |-> [pc |-> "idle"]]

\* the pages as mounted and the catalog service as constructed: AuthGate and
\* the bootstrap checks have not run, nothing is loaded, no project is saved
PageIdle ==
    /\ authGate = [pc |-> "mount", isAuthenticated |-> FALSE, isLoading |-> TRUE,
                   error |-> Null, email |-> Null, userDetails |-> Null]
    /\ bootStatus = [Root |-> [pc |-> "mount", status |-> "loading"],
                     App |-> [pc |-> "mount", status |-> "checking"]]
    /\ productService = [products |-> <<>>, isLoading |-> FALSE, loadPromise |-> Null]
    /\ savedProject = Null

InitialUsers == {[id |-> "admin", role |-> "ADMIN", status |-> "ACTIVE"]}

Init ==
    /\ AppInit
    /\ activityLog = <<>>
    /\ users = InitialUsers
    /\ svc = SvcIdle
    /\ BootIdle
    /\ PageIdle

Resumes ==
    \E k \in 1..MaxCalls : GenerateResumes(k) \/ ValidateResumes(k) \/ RefineResumes(k)

Next ==
    \/ \E t \in {"blank", "template"} : handleAddRoom(t)
    \/ \E id \in RoomIds : handleDuplicateRoom(id)
    \/ \E id \in RoomIds : handleDeleteRequest(id)
    \/ handleConfirmDelete
    \/ \E id \in RoomIds : SelectRoom(id)
    \/ \E id \in RoomIds : updateRoomName(id, RoomName("Renamed", 0))
    \/ \E a \in {"edited", "blank"} : handleAnswersChange(a)
    \/ handleGenerateBoq
    \/ handleValidateBoq
    \/ handleRefineBoq
    \/ \E i \in 1..MaxBoqLen, u \in ItemUpdates : handleBoqItemUpdate(i, u)
    \/ \E i \in 1..MaxBoqLen : handleBoqItemDelete(i)
    \/ handleBoqItemAdd
    \/ \E k \in 1..MaxCalls : OracleSettles(k)
    \/ Resumes

Spec == Init /\ [][Next]_vars

----------------------------------------------------------------------------
(* The service functions, one call at a time, over every answer of the
   oracle, of the logger and of the backend *)

BoqOps == {"generateBoq", "refineBoq"}

\* a BOQ function is called and builds its prompt: generateBoq states the
\* availability report in it, refineBoq and validateBoq the BOQ they are given
SvcGenerate ==
    /\ svc.pc = "idle"
    /\ \E answers \in SvcAnswers :
          svc' = [pc |-> "await", op |-> "generateBoq", arg |-> answers,
                  report |-> dbAvailabilityReport(answers)]
    /\ UNCHANGED <<appVars, activityLog, users, bootVars, pageVars>>

SvcRefine ==
    /\ svc.pc = "idle"
    /\ \E currentBoq \in SvcBoqs :
          svc' = [pc |-> "await", op |-> "refineBoq", arg |-> currentBoq, report |-> <<>>]
    /\ UNCHANGED <<appVars, activityLog, users, bootVars, pageVars>>

SvcValidate ==
    /\ svc.pc = "idle"
    /\ \E boq \in SvcBoqs :
          svc' = [pc |-> "await", op |-> "validateBoq", arg |-> boq, report |-> <<>>]
    /\ UNCHANGED <<appVars, activityLog, users, bootVars, pageVars>>

\* the call of a service function with everything its awaits met
SvcResult(op, arg, o, lg) ==
    CASE op = "generateBoq" -> generateBoq(arg, o, lg)
      [] op = "refineBoq" -> refineBoq(arg, RefinementPrompt, o, lg)
      [] op = "validateBoq" -> validateBoq(arg, "requirements", o, lg)

\* the oracle settles and the function returns or throws
SvcSettles ==
    /\ svc.pc = "await"
    /\ \E o \in IF svc.op = "validateBoq" THEN ValidationOutcomes ELSE BoqOutcomes,
          lg \in LogOutcomes :
          LET res == SvcResult(svc.op, svc.arg, o, lg)
          IN /\ svc' = [pc |-> "done", op |-> svc.op, arg |-> svc.arg, report |-> svc.report,
                        oracle |-> o,
                        out |-> IF res.kind = "return" THEN Return(res.value)
                                ELSE Throw(res.error),
                        logged |-> res.logged]
             /\ activityLog' = Logged(res.logged)
             /\ Len(activityLog') <= MaxLogs
    /\ UNCHANGED <<appVars, users, bootVars, pageVars>>

\* a user-management operation, from its call to its result
SvcUserOp(op, id, arg, res, db) ==
    /\ svc.pc = "idle"
    /\ svc' = [pc |-> "done", op |-> op, id |-> id, arg |-> arg, before |-> users, db |-> db,
               out |-> res.result, logged |-> res.logged]
    /\ users' = res.users
    /\ activityLog' = Logged(res.logged)
    /\ Len(activityLog') <= MaxLogs
    /\ UNCHANGED <<appVars, bootVars, pageVars>>

SvcCreateUser ==
    \E email \in UserIds, role \in Roles, db \in DbOutcomes, lg \in LogOutcomes :
        SvcUserOp("createUser", email, role, createUser(users, email, role, db, lg), db)

SvcUpdateUserRole ==
    \E id \in UserIds, role \in Roles, db \in DbOutcomes, lg \in LogOutcomes :
        SvcUserOp("updateUserRole", id, role, updateUserRole(users, id, role, db, lg), db)

SvcUpdateUserStatus ==
    \E id \in UserIds, st \in Statuses, db \in DbOutcomes, lg \in LogOutcomes :
        SvcUserOp("updateUserStatus", id, st, updateUserStatus(users, id, st, db, lg), db)

SvcDeleteUserAccount ==
    \E id \in UserIds, db \in DbOutcomes, lg \in LogOutcomes :
        SvcUserOp("deleteUserAccount", id, "", deleteUserAccount(users, id, db, lg), db)

\* the caller has the result
SvcReturns ==
    /\ svc.pc = "done"
    /\ svc' = SvcIdle
    /\ UNCHANGED <<appVars, activityLog, users, bootVars, pageVars>>

SvcNext ==
    \/ SvcGenerate
    \/ SvcRefine
    \/ SvcValidate
    \/ SvcSettles
    \/ SvcCreateUser
    \/ SvcUpdateUserRole
    \/ SvcUpdateUserStatus
    \/ SvcDeleteUserAccount
    \/ SvcReturns

SvcSpec == Init /\ [][SvcNext]_vars

----------------------------------------------------------------------------
(* The App with the event loop running every continuation whose promise has
   settled; nothing makes the oracle settle *)

LiveSpec == Spec /\ WF_vars(Resumes)

----------------------------------------------------------------------------
(* Properties of the App *)

\* C1, as stated: every item a room holds has totalPrice = quantity * unitPrice,
\* after generate, refine and any manual edit of a row
C1_TotalIsQuantityTimesUnitPrice ==
    \A r \in Range(rooms) :
        r.boq # Null =>
            \A i \in DOMAIN r.boq[1] :
                LET item == r.boq[1][i]
                    q == ToNumber(item, "quantity")
                    u == ToNumber(item, "unitPrice")
                IN /\ ~q.nan
                   /\ ~u.nan
                   /\ "totalPrice" \in DOMAIN item
                   /\ item.totalPrice = JsMul(q, u)

\* the handler of call k runs from its await to its end
CallEnds(k, kind) ==
    /\ k \in DOMAIN calls
    /\ calls[k].kind = kind
    /\ calls[k].oracle # Null
    /\ calls' = RemoveAt(calls, k)

Boqs(rs) == [i \in DOMAIN rs |-> [id |-> rs[i].id, boq |-> rs[i].boq]]

\* C3, as stated: the step in which a failed refine is reported leaves the BOQ
\* of every room as it was just before, manual edits made meanwhile included
C3_RefineFailureKeepsBoqs ==
    [][\A k \in 1..MaxCalls :
          (CallEnds(k, "refine") /\ ParseBoq(calls[k].oracle[1]).kind = "throw")
              => Boqs(rooms') = Boqs(rooms)]_vars

\* what the user edits of the rooms: the list itself, names, answers, BOQs
Content(rs) ==
    [i \in DOMAIN rs |->
        [id |-> rs[i].id, name |-> rs[i].name, answers |-> rs[i].answers, boq |-> rs[i].boq]]

\* what a call was requested against: the answers and the BOQ of its room
Requested(rs, idOpt) ==
    IF HasRoom(rs, idOpt)
    THEN Some([answers |-> RoomOf(rs, idOpt).answers, boq |-> RoomOf(rs, idOpt).boq])
    ELSE Null

\* the content of the rooms but for the BOQ of one room
ContentBut(rs, idOpt) ==
    [i \in DOMAIN rs |->
        IF idOpt # Null /\ rs[i].id = idOpt[1]
        THEN [id |-> rs[i].id, name |-> rs[i].name, answers |-> rs[i].answers]
        ELSE Content(rs)[i]]

\* C4, as stated: a generate or refine response touches the BOQ of its room
\* alone, and not even that once the answers or the BOQ it was requested
\* against have changed: every change made meanwhile stays in place
C4_StaleResponseOverwritesNothing ==
    [][\A k \in 1..MaxCalls :
          (CallEnds(k, "generate") \/ CallEnds(k, "refine"))
              => LET c == calls[k] IN
                 /\ ContentBut(rooms', c.activeRoomId) = ContentBut(rooms, c.activeRoomId)
                 /\ Requested(rooms, c.activeRoomId) # Requested(c.rooms, c.activeRoomId)
                       => Content(rooms') = Content(rooms)]_vars

\* C5, as stated: no two calls are in flight against the same room
C5_OneCallPerRoom ==
    \A i, j \in DOMAIN calls : i # j => calls[i].activeRoomId # calls[j].activeRoomId

\* C7: when handleValidateBoq ends, the room it validated (if it still exists)
\* has isValidating false and a validationResult, which is the fixed fallback
\* result whenever the oracle call or the parsing of its answer failed
C7_ValidateNeverFailsHard ==
    [][\A k \in 1..MaxCalls :
          CallEnds(k, "validate") /\ HasRoom(rooms', calls[k].activeRoomId)
              => LET r == RoomOf(rooms', calls[k].activeRoomId)
                 IN /\ ~r.isValidating
                    /\ r.validationResult # Null
                    /\ ParseValidation(calls[k].oracle[1]).kind = "throw"
                          => r.validationResult = Some(ValidationFailed)]_vars

\* C7 witness: a room holds the fallback result of a failed validation that
\* could not even be logged
C7_FallbackResultSet ==
    /\ activityLog = <<>>
    /\ \E r \in Range(rooms) :
          /\ ~r.isValidating
          /\ r.validationResult = Some(ValidationFailed)
          /\ r.validationResult[1].isValid = FALSE
          /\ r.validationResult[1].score = 0

\* C10, as stated: whenever a call is in flight its flag eventually returns to
\* false, whether or not the oracle ever answers
C10_FlagsEventuallyReset ==
    /\ isRefining ~> ~isRefining
    /\ \A id \in RoomIds :
          (\E r \in Range(rooms) : r.id = id /\ (r.isLoading \/ r.isValidating))
              ~> ~(\E r \in Range(rooms) : r.id = id /\ (r.isLoading \/ r.isValidating))

----------------------------------------------------------------------------
(* Properties of the service functions *)

BoqReturned == svc.pc = "done" /\ svc.op \in BoqOps /\ svc.out.kind = "return"

\* the sub-categories of the report for which answers name one brand that the
\* catalog has no record of
LockedToWeb(answers) ==
    {sub \in Range(ReportedSubCategories) :
        LET brands == brandPreferences(answers)[sub.key]
        IN Len(brands) = 1 /\ brands[1] # "" /\ searchDatabase(brands[1], sub.label) = {}}

\* C2, as stated: generateBoq returns, for a sub-category whose preferred
\* brand the catalog lacks, only items of that brand with source 'web'
C2_BrandLock ==
    (BoqReturned /\ svc.op = "generateBoq") =>
        \A sub \in LockedToWeb(svc.arg) :
            \A item \in Range(svc.out.value) :
                item.category = sub.label =>
                    /\ toLowerCase(item.brand) = toLowerCase(brandPreferences(svc.arg)[sub.key][1])
                    /\ item.source = "web"

CountCategory(boq, category) == Cardinality({i \in DOMAIN boq : boq[i].category = category})

\* C6, as stated: validateBoq returns isValid false and a score of at most 59
\* for a BOQ whose numbers of display and of mount items differ
C6_ValidationFloor ==
    (svc.pc = "done" /\ svc.op = "validateBoq"
        /\ CountCategory(svc.arg, "Display") # CountCategory(svc.arg, "Mounts & Racks"))
        => /\ svc.out.kind = "return"
           /\ "isValid" \in DOMAIN svc.out.value
           /\ svc.out.value.isValid = FALSE
           /\ svc.out.value.score <= 59

\* an element of the oracle's array that lacks a required field or has no
\* positive quantity
Malformed(item) ==
    \/ RequiredFields \ DOMAIN item # {}
    \/ item.quantity.v <= 0

\* C8, as stated: generateBoq and refineBoq throw whenever the oracle's array
\* holds a malformed element
C8_MalformedItemFailsWhole ==
    (svc.pc = "done" /\ svc.op \in BoqOps /\ svc.oracle.kind = "text"
        /\ svc.oracle.payload.json = "array"
        /\ \E item \in Range(svc.oracle.payload.items) : Malformed(item))
        => svc.out.kind = "throw"

UserOps == {"createUser", "updateUserRole", "updateUserStatus", "deleteUserAccount"}

\* the outcome of the operation that svc records, had the logger worked
OutcomeWithLogger ==
    LET out(res) == IF res.kind = "return" THEN Return(res.value) ELSE Throw(res.error)
    IN CASE svc.op = "generateBoq" -> out(generateBoq(svc.arg, svc.oracle, LogAllOk))
         [] svc.op = "refineBoq" -> out(refineBoq(svc.arg, RefinementPrompt, svc.oracle, LogAllOk))
         [] svc.op = "validateBoq" ->
                out(validateBoq(svc.arg, "requirements", svc.oracle, LogAllOk))
         [] svc.op = "createUser" ->
                createUser(svc.before, svc.id, svc.arg, svc.db, LogAllOk).result
         [] svc.op = "updateUserRole" ->
                updateUserRole(svc.before, svc.id, svc.arg, svc.db, LogAllOk).result
         [] svc.op = "updateUserStatus" ->
                updateUserStatus(svc.before, svc.id, svc.arg, svc.db, LogAllOk).result
         [] svc.op = "deleteUserAccount" ->
                deleteUserAccount(svc.before, svc.id, svc.db, LogAllOk).result

\* C9: whatever the logger does, an operation ends as it would have with a
\* working logger: a failed generate or refine throws the error of the oracle
\* or of the parsing, a user-management operation that wrote returns
C9_LoggerNeverChangesOutcome ==
    svc.pc = "done" =>
        /\ svc.out = OutcomeWithLogger
        /\ (svc.op \in BoqOps /\ svc.out.kind = "throw")
              => svc.out.error = ParseBoq(svc.oracle).error
        /\ (svc.op \in UserOps /\ users # svc.before) => svc.out.kind = "return"

\* C9 witness: a user was created and returned although nothing was logged
C9_CreatedWithoutLog ==
    /\ svc.pc = "done"
    /\ svc.op = "createUser"
    /\ svc.out.kind = "return"
    /\ svc.out.value \in users
    /\ svc.logged = Null
    /\ activityLog = <<>>

----------------------------------------------------------------------------
(* What generateBoq computes from the answers before it calls the oracle:
   the room metrics, the allowed categories, the catalog excerpt *)

\* an answer as parseFloat and parseInt read it: text that starts with a
\* decimal numeral (lead) or not, the numeral having a fraction or not (frac,
\* for capacity alone), followed by other characters or not (rest)
RawText(lead, rest) == [lead |-> lead, rest |-> rest]

\* parseFloat(answers[f]): the leading numeral, NaN without one or for undefined
parseFloat(answers, f) ==
    IF f \notin DOMAIN answers \/ answers[f].lead = Null THEN NaN
    ELSE Num(answers[f].lead[1])

\* parseInt(answers[f]): the integer part of the leading numeral
parseInt(answers, f) ==
    IF f \notin DOMAIN answers \/ answers[f].lead = Null THEN NaN
    ELSE Num(answers[f].lead[1])

\* x || d on a number: NaN and 0 are falsy
JsOr(x, d) == IF x.nan \/ x.v = 0 THEN Num(d) ELSE x

JsAdd(a, b) == IF a.nan \/ b.nan THEN NaN ELSE Num(a.v + b.v)

\* a quotient rounded down where it should be rounded up
FloorDiv(x, d) == IF x.nan THEN NaN ELSE Num(x.v \div d)

\* Math.ceil(x / d), d a positive integer
CeilDiv(x, d) == IF x.nan THEN NaN ELSE Num(-((-x.v) \div d))

\* the room metrics and the quantities the prompt states
roomMetrics(answers) ==
    LET roomLength == JsOr(parseFloat(answers, "roomLength"), 20)
        roomWidth == JsOr(parseFloat(answers, "roomWidth"), 15)
        roomHeight == JsOr(parseFloat(answers, "roomHeight"), 10)
        tableLength == JsOr(parseFloat(answers, "tableLength"), 12)
        rackDistance == JsOr(parseFloat(answers, "rackDistance"), 30)
        capacity == JsOr(parseInt(answers, "capacity"), 10)
        roomArea == JsMul(roomLength, roomWidth)
    IN [roomLength |-> roomLength, roomWidth |-> roomWidth, roomHeight |-> roomHeight,
        tableLength |-> tableLength, rackDistance |-> rackDistance, capacity |-> capacity,
        roomVolume |-> JsMul(JsMul(roomLength, roomWidth), roomHeight),
        roomArea |-> roomArea,
        displayTotalRun |-> JsAdd(JsAdd(rackDistance, tableLength), Num(15)),
        ceilingMicCount |-> CeilDiv(roomArea, 700),
        tableMicCount |-> CeilDiv(capacity, 4),
        ceilingSpeakerCount |-> CeilDiv(roomArea, 175)]

GeometryFields ==
    {"roomLength", "roomWidth", "roomHeight", "tableLength", "rackDistance", "capacity"}

GeometryDefaults ==
    [roomLength |-> 20, roomWidth |-> 15, roomHeight |-> 10, tableLength |-> 12,
     rackDistance |-> 30, capacity |-> 10]

\* the answers given to a geometry question: a number, "12ft", "abc", ""
\* and, for capacity, 3.7
GeometryInputs ==
    [roomLength |-> {RawText(Some(n), FALSE) : n \in {0, 20, 35, 701}}
                    \cup {RawText(Some(12), TRUE), RawText(Null, TRUE)},
     roomWidth |-> {RawText(Some(n), FALSE) : n \in {1, 15, 20}},
     roomHeight |-> {RawText(Null, FALSE)},
     tableLength |-> {RawText(Some(5), FALSE)},
     rackDistance |-> {RawText(Some(60), FALSE)},
     capacity |-> {RawText(Some(n), FALSE) : n \in {0, 9, 10}}
                  \cup {[lead |-> Some(3), rest |-> FALSE, frac |-> TRUE]}]

\* a question left unanswered
Unanswered == [unanswered |-> TRUE]

\* the answers record without its unanswered questions
Answered(c) == [f \in {g \in DOMAIN c : c[g] # Unanswered} |-> c[f]]

\* every record of answers that gives some of the geometry fields
MetricAnswers ==
    {Answered(c) : c \in [roomLength : GeometryInputs.roomLength \cup {Unanswered},
                          roomWidth : GeometryInputs.roomWidth \cup {Unanswered},
                          roomHeight : GeometryInputs.roomHeight \cup {Unanswered},
                          tableLength : GeometryInputs.tableLength \cup {Unanswered},
                          rackDistance : GeometryInputs.rackDistance \cup {Unanswered},
                          capacity : GeometryInputs.capacity \cup {Unanswered}]}

\* generateBoq computes the room metrics of its answers
PromptMetrics ==
    /\ svc.pc = "idle"
    /\ \E answers \in MetricAnswers :
          svc' = [pc |-> "done", op |-> "roomMetrics", arg |-> answers,
                  out |-> roomMetrics(answers)]
    /\ UNCHANGED <<appVars, activityLog, users, bootVars, pageVars>>

MetricsDone == svc.pc = "done" /\ svc.op = "roomMetrics"

\* C11, as stated: a geometry field is its default when the answer is absent or
\* not a number and the number supplied when it is one, and every derived
\* quantity is a number
C11_GeometryDefaults ==
    MetricsDone =>
        /\ \A f \in GeometryFields :
              IF f \notin DOMAIN svc.arg \/ svc.arg[f].lead = Null \/ svc.arg[f].rest
              THEN svc.out[f] = Num(GeometryDefaults[f])
              ELSE /\ "frac" \notin DOMAIN svc.arg[f]
                   /\ svc.out[f] = Num(svc.arg[f].lead[1])
        /\ \A q \in {"roomArea", "roomVolume", "displayTotalRun", "ceilingMicCount",
                     "tableMicCount", "ceilingSpeakerCount"} : ~svc.out[q].nan

\* c = ceil(a / d) said without a division
IsCeilOf(c, a, d) == ~c.nan /\ ~a.nan /\ c.v * d >= a.v /\ (c.v - 1) * d < a.v

\* C12: the quantities of the prompt are ceil(area/700), ceil(capacity/4),
\* ceil(area/175) and rackDistance + tableLength + 15 with area = length *
\* width; area 700 gives 1 ceiling microphone, area 701 gives 2, a 20 x 15 room
\* of capacity 10 gives 2 ceiling speakers and 3 table microphones
C12_PromptQuantities ==
    MetricsDone =>
        LET m == svc.out IN
        /\ m.roomArea = Num(m.roomLength.v * m.roomWidth.v)
        /\ IsCeilOf(m.ceilingMicCount, m.roomArea, 700)
        /\ IsCeilOf(m.tableMicCount, m.capacity, 4)
        /\ IsCeilOf(m.ceilingSpeakerCount, m.roomArea, 175)
        /\ m.displayTotalRun = Num(m.rackDistance.v + m.tableLength.v + 15)
        /\ m.roomArea = Num(700) => m.ceilingMicCount = Num(1)
        /\ m.roomArea = Num(701) => m.ceilingMicCount = Num(2)
        /\ (m.roomLength = Num(20) /\ m.roomWidth = Num(15) /\ m.capacity = Num(10))
              => m.ceilingSpeakerCount = Num(2) /\ m.tableMicCount = Num(3)

\* C12 witness: an area of 701 square feet, one more than the boundary, is
\* stated with 2 ceiling microphones
C12_JustOverBoundary ==
    /\ MetricsDone
    /\ svc.out.roomArea = Num(701)
    /\ svc.out.ceilingMicCount = Num(2)

\* an element of allowedCategories: a catalog label, or the function the
\* lookup finds for a key the map inherits from Object.prototype
Label(name) == [label |-> name]
Inherited(key) == [inherited |-> key]

AllSystems ==
    <<"display", "video_conferencing", "audio", "connectivity_control", "infrastructure",
      "acoustics">>

categoryMap ==
    [display |-> <<"Display System", "Hiperwall System">>,
     video_conferencing |-> <<"VC system", "VC System">>,
     audio |-> <<"Audio System">>,
     connectivity_control |-> <<"Cables & Connectors", "Cables and Connectors",
                                "Control System", "Room Scheduler">>,
     infrastructure |-> <<"Display support system", "Display Support System",
                          "Display Supoort System", "Display support System",
                          "AV Rack System", "AV Rack system">>,
     acoustics |-> <<"Acoustic Treatment">>]

ObjectPrototypeKeys == {"constructor", "toString"}

\* categoryMap[system] || [], as flatMap takes it: the labels of a key of the
\* map, the one inherited function (flatMap keeps what is no array), nothing
MappedLabels(system) ==
    IF system \in DOMAIN categoryMap
    THEN [i \in DOMAIN categoryMap[system] |-> Label(categoryMap[system][i])]
    ELSE IF system \in ObjectPrototypeKeys THEN <<Inherited(system)>>
    ELSE <<>>

RECURSIVE flatMapLabels(_)
flatMapLabels(systems) ==
    IF systems = <<>> THEN <<>>
    ELSE MappedLabels(Head(systems)) \o flatMapLabels(Tail(systems))

\* answers.requiredSystems || [the six systems]: an empty array is truthy
requiredSystems(answers) ==
    IF "requiredSystems" \in DOMAIN answers THEN answers.requiredSystems ELSE AllSystems

\* allowedCategories with an empty list taken for an absent one
allowedCategories_emptyAsAbsent(answers) ==
    flatMapLabels(IF requiredSystems(answers) = <<>> THEN AllSystems
                  ELSE requiredSystems(answers))
    \o <<Label("Accessories & Services"), Label("Installation & Services")>>

allowedCategories(answers) ==
    flatMapLabels(requiredSystems(answers))
    \o <<Label("Accessories & Services"), Label("Installation & Services")>>

\* the requiredSystems lists tried: known keys, a key the map does not have,
\* a key it inherits, an empty list, no list
SystemsAnswers ==
    {EmptyObject}
    \cup {[requiredSystems |-> l] :
            l \in {<<>>, AllSystems, <<"display">>, <<"audio", "display">>, <<"lighting">>,
                   <<"audio", "lighting">>, <<"constructor">>, <<"display", "display">>,
                   <<"acoustics", "toString", "video_conferencing">>}}

\* generateBoq resolves the systems asked for to catalog categories
PromptCategories ==
    /\ svc.pc = "idle"
    /\ \E answers \in SystemsAnswers :
          svc' = [pc |-> "done", op |-> "allowedCategories", arg |-> answers,
                  out |-> allowedCategories(answers)]
    /\ UNCHANGED <<appVars, activityLog, users, bootVars, pageVars>>

CategoriesDone == svc.pc = "done" /\ svc.op = "allowedCategories"

----------------------------------------------------------------------------
(* The catalog excerpt of the prompt *)

DefaultLimitPerGroup == 20
Tier1Limit == 30

TIER_1_BRANDS ==
    {"samsung", "lg", "sony", "crestron", "extron", "shure", "sennheiser", "qsc", "biamp",
     "yealink", "poly", "logitech"}

\* n catalog records of one brand and category, numbered from `from`
RECURSIVE Products(_, _, _, _)
Products(brand, category, from, n) ==
    IF n = 0 THEN <<>>
    ELSE <<[brand |-> brand, category |-> category, model |-> from]>>
         \o Products(brand, category, from + 1, n - 1)

\* the record of the excerpt for a product; description, price and currency
\* are copied likewise
ExcerptRecord(p) ==
    [brand |-> p.brand,
     model |-> IF "model" \in DOMAIN p THEN p.model
               ELSE IF "awmdb_id" \in DOMAIN p THEN p.awmdb_id ELSE "N/A",
     category |-> p.category]

\* products.filter(p => allowedCategories.includes(p.category || ''))
RECURSIVE FilterAllowed(_, _)
FilterAllowed(products, allowed) ==
    IF products = <<>> THEN <<>>
    ELSE (IF Label(Head(products).category) \in Range(allowed) THEN <<Head(products)>>
          ELSE <<>>)
         \o FilterAllowed(Tail(products), allowed)

\* geminiService.ts getFilteredDatabaseString: every record of an allowed
\* category
getFilteredDatabaseString(products, allowed) ==
    LET filtered == FilterAllowed(products, allowed)
    IN [i \in DOMAIN filtered |-> ExcerptRecord(filtered[i])]

GroupKey(p) == <<p.category, p.brand>>

\* const limit = TIER_1_BRANDS.includes(p.brand.toLowerCase()) ? 30 : limitPerGroup
GroupLimit(brand, limitPerGroup) ==
    IF toLowerCase(brand) \in TIER_1_BRANDS THEN Tier1Limit ELSE limitPerGroup

\* the first n elements of xs
Take(xs, n) == SubSeq(xs, 1, IF Len(xs) < n THEN Len(xs) ELSE n)

\* the groups after filtered.forEach: a product is pushed to the group of its
\* key while that group is below its limit, so a group ends as the first
\* `limit` products of its key; Object.values lists the groups in the order
\* in which their keys were first seen
GroupFrom(products, limitPerGroup) ==
    LET indices == [i \in DOMAIN products |-> i]
        firstSeen == SelectSeq(indices,
                         LAMBDA i : \A j \in 1..(i - 1) :
                                        GroupKey(products[j]) # GroupKey(products[i]))
    IN [g \in DOMAIN firstSeen |->
           LET first == products[firstSeen[g]]
           IN [key |-> GroupKey(first),
               items |-> Take(SelectSeq(products, LAMBDA p : GroupKey(p) = GroupKey(first)),
                              GroupLimit(first.brand, limitPerGroup))]]

\* Object.values(groups).flat()
RECURSIVE Flat(_)
Flat(groups) == IF groups = <<>> THEN <<>> ELSE Head(groups).items \o Flat(Tail(groups))

\* ProductService.getFilteredDatabaseString
ProductService_getFilteredDatabaseString(products, allowed, limitPerGroup) ==
    LET kept == Flat(GroupFrom(FilterAllowed(products, allowed), limitPerGroup))
    IN [i \in DOMAIN kept |-> ExcerptRecord(kept[i])]

\* the catalogs tried: Samsung displays, then Chief mounts, then more Samsung
\* displays, with groups below, at and above their limits
Catalogs ==
    {Products("Samsung", "Display System", 1, a)
        \o Products("Chief", "Display support system", 1, b)
        \o Products("Samsung", "Display System", a + 1, c) :
     a \in {0, 1, Tier1Limit}, b \in {0, DefaultLimitPerGroup, DefaultLimitPerGroup + 1},
     c \in {0, 1, 2}}

ExcerptAnswers ==
    {EmptyObject, [requiredSystems |-> <<"display">>], [requiredSystems |-> <<"lighting">>]}

\* generateBoq and refineBoq build the excerpt they hand to the oracle
PromptExcerpt ==
    /\ svc.pc = "idle"
    /\ \E products \in Catalogs, answers \in ExcerptAnswers :
          svc' = [pc |-> "done", op |-> "getFilteredDatabaseString",
                  arg |-> [products |-> products, allowed |-> allowedCategories(answers)],
                  out |-> getFilteredDatabaseString(products, allowedCategories(answers))]
    /\ UNCHANGED <<appVars, activityLog, users, bootVars, pageVars>>

\* the excerpt of ProductService, which no caller in the sources asks for
ProductServiceExcerpt ==
    /\ svc.pc = "idle"
    /\ \E products \in Catalogs, answers \in ExcerptAnswers :
          svc' = [pc |-> "done", op |-> "ProductService.getFilteredDatabaseString",
                  arg |-> [products |-> products, allowed |-> allowedCategories(answers)],
                  out |-> ProductService_getFilteredDatabaseString(
                              products, allowedCategories(answers), DefaultLimitPerGroup)]
    /\ UNCHANGED <<appVars, activityLog, users, bootVars, pageVars>>

\* the records of xs of one (category, brand), in the order of xs
RECURSIVE GroupOf(_, _)
GroupOf(xs, key) ==
    IF xs = <<>> THEN <<>>
    ELSE (IF GroupKey(Head(xs)) = key THEN <<Head(xs)>> ELSE <<>>) \o GroupOf(Tail(xs), key)

\* the excerpt keeps, of every (category, brand) of the allowed categories, the
\* first records in catalog order up to the limit of the brand
CappedExcerpt(products, allowed, out) ==
    LET all == [i \in DOMAIN products |-> ExcerptRecord(products[i])]
    IN \A key \in {GroupKey(all[i]) : i \in DOMAIN all} :
          LET cap == IF toLowerCase(key[2]) \in TIER_1_BRANDS THEN 30 ELSE 20
              whole == GroupOf(all, key)
              kept == GroupOf(out, key)
          IN IF Label(key[1]) \in Range(allowed)
             THEN /\ Len(kept) <= cap
                  /\ kept = SubSeq(whole, 1, IF Len(whole) < cap THEN Len(whole) ELSE cap)
             ELSE kept = <<>>

\* C14, as stated: in the excerpt handed to generation and refinement every
\* (category, brand) group holds at most 20 records, 30 for a tier-1 brand,
\* and these are the first of the group in catalog order
C14_ExcerptGroupCaps ==
    (svc.pc = "done" /\ svc.op = "getFilteredDatabaseString")
        => CappedExcerpt(svc.arg.products, svc.arg.allowed, svc.out)

----------------------------------------------------------------------------
(* The sourcing directives generateBoq prepares: geminiService.ts 79-184 *)

\* the questionnaires tried: the brand lists of the service calls, and a list
\* for each of racks, connectivity and control
ReportAnswers ==
    SvcAnswers \cup
    {[rackBrands |-> <<"Valrack">>],
     [connectivityBrands |-> <<"Extron">>],
     [controlBrands |-> <<"Crestron">>, displayBrands |-> <<"Samsung">>],
     [mountBrands |-> <<"chief">>, vcBrands |-> <<"Poly">>],
     [dspAmplifierBrands |-> <<"QSC">>, audioBrands |-> <<"Shure">>]}

\* generateBoq builds brandPreferences and the availability report
PromptReport ==
    /\ svc.pc = "idle"
    /\ \E answers \in ReportAnswers :
          svc' = [pc |-> "done", op |-> "dbAvailabilityReport", arg |-> answers,
                  out |-> dbAvailabilityReport(answers)]
    /\ UNCHANGED <<appVars, activityLog, users, bootVars, pageVars>>

\* the lines of a report that direct the sourcing of brand for sub-category key
DirectivesFor(report, key, brand) ==
    {k \in DOMAIN report :
        /\ report[k].brand = brand
        /\ \E sub \in Range(ReportedSubCategories) :
              sub.key = key /\ sub.label = report[k].label}

\* C15, as stated: for every sub-category with a brand preference (displays,
\* mounts, racks, microphones, DSP/amplifiers, speakers, VC, connectivity,
\* control) and every brand listed in it, the report holds exactly one
\* directive: the catalog first when the catalog has a record of that brand
\* (ignoring case) under the sub-category's label, web knowledge otherwise
C15_DirectivePerPreferredBrand ==
    (svc.pc = "done" /\ svc.op = "dbAvailabilityReport") =>
        LET prefs == brandPreferences(svc.arg)
        IN \A key \in DOMAIN prefs : \A i \in DOMAIN prefs[key] :
              LET lines == DirectivesFor(svc.out, key, prefs[key][i])
              IN /\ Cardinality(lines) = 1
                 /\ \A k \in lines :
                       svc.out[k].directive =
                           IF searchDatabase(prefs[key][i], svc.out[k].label) # {}
                           THEN "USE THESE FIRST" ELSE "Generate from web knowledge"

\* the six reported sub-categories alone do get one directive per brand
C15_ReportedSubCategoriesCovered ==
    (svc.pc = "done" /\ svc.op = "dbAvailabilityReport") =>
        LET prefs == brandPreferences(svc.arg)
        IN \A sub \in Range(ReportedSubCategories) : \A i \in DOMAIN prefs[sub.key] :
              Cardinality(DirectivesFor(svc.out, sub.key, prefs[sub.key][i])) = 1

----------------------------------------------------------------------------
(* The preparation of generateBoq's prompt, one computation at a time *)

PromptNext ==
    \/ PromptMetrics
    \/ PromptCategories
    \/ PromptExcerpt
    \/ ProductServiceExcerpt
    \/ PromptReport
    \/ SvcReturns

PromptSpec == Init /\ [][PromptNext]_vars

----------------------------------------------------------------------------
(* What generateBoq and refineBoq return of the oracle's array *)

\* the items of a Boq in one category, in their order
ItemsOf(boq, category) ==
    SelectSeq(boq, LAMBDA item : "category" \in DOMAIN item /\ item.category = category)

CategoriesOf(boq) == {boq[i].category : i \in {k \in DOMAIN boq : "category" \in DOMAIN boq[k]}}

\* C16, as stated: a Boq returned by generateBoq that holds a display item
\* holds as many mount items as display items, whatever the oracle answered
C16_MountPerDisplay ==
    (svc.pc = "done" /\ svc.op = "generateBoq" /\ svc.out.kind = "return"
        /\ ItemsOf(svc.out.value, "Display") # <<>>)
        => Len(ItemsOf(svc.out.value, "Mounts & Racks"))
               = Len(ItemsOf(svc.out.value, "Display"))

\* C17, as stated: the Boq returned by refineBoq holds the items of every
\* category the instruction does not touch equal to the originals, and every
\* item of the touched category carries the requested brand
C17_RefinementPreserves ==
    (svc.pc = "done" /\ svc.op = "refineBoq" /\ svc.out.kind = "return") =>
        /\ \A category \in CategoriesOf(svc.arg) \ {RefinementPrompt.touches} :
              ItemsOf(svc.out.value, category) = ItemsOf(svc.arg, category)
        /\ \A i \in DOMAIN ItemsOf(svc.out.value, RefinementPrompt.touches) :
              ItemsOf(svc.out.value, RefinementPrompt.touches)[i].brand
                  = RefinementPrompt.brand

----------------------------------------------------------------------------
(* The catalog normalizer: the clean-database script (unnamed/part_003).
   A string is the sequence of its characters, so that lower-casing, trimming
   and capitalizing are computed character by character. *)

LowerCaseLetters ==
    <<"a", "b", "c", "d", "e", "f", "g", "h", "i", "j", "k", "l", "m", "n", "o", "p", "q", "r", "s", "t", "u", "v", "w", "x", "y", "z">>

UpperCaseLetters ==
    <<"A", "B", "C", "D", "E", "F", "G", "H", "I", "J", "K", "L", "M", "N", "O", "P", "Q", "R", "S", "T", "U", "V", "W", "X", "Y", "Z">>

charToLowerCase(c) ==
    IF \E i \in DOMAIN UpperCaseLetters : UpperCaseLetters[i] = c
    THEN LowerCaseLetters[CHOOSE i \in DOMAIN UpperCaseLetters : UpperCaseLetters[i] = c]
    ELSE c

charToUpperCase(c) ==
    IF \E i \in DOMAIN LowerCaseLetters : LowerCaseLetters[i] = c
    THEN UpperCaseLetters[CHOOSE i \in DOMAIN LowerCaseLetters : LowerCaseLetters[i] = c]
    ELSE c

\* String.prototype.toLowerCase
stringToLowerCase(str) == [i \in DOMAIN str |-> charToLowerCase(str[i])]

\* String.prototype.trim
trim(str) ==
    LET inked == {i \in DOMAIN str : str[i] # " "}
    IN IF inked = {} THEN <<>>
       ELSE SubSeq(str, CHOOSE i \in inked : \A j \in inked : i <= j,
                        CHOOSE i \in inked : \A j \in inked : j <= i)

\* p.brand.charAt(0).toUpperCase() + p.brand.slice(1)
capitalizeFirst(str) ==
    IF str = <<>> THEN <<>> ELSE <<charToUpperCase(Head(str))>> \o Tail(str)

\* BRAND_MAP, its entries in the order of the source
BRAND_MAP ==
    << 
       [key |-> <<"s", "a", "m", "s", "u", "n", "g", " ", "e", "l", "e", "c", "t", "r", "o", "n", "i", "c", "s">>,
        value |-> <<"S", "a", "m", "s", "u", "n", "g">>],
       [key |-> <<"s", "a", "m", "s", "u", "n", "g", " ", "d", "i", "s", "p", "l", "a", "y">>,
        value |-> <<"S", "a", "m", "s", "u", "n", "g">>],
       [key |-> <<"s", "a", "m", "s", "u", "n", "g", " ", "i", "n", "c">>,
        value |-> <<"S", "a", "m", "s", "u", "n", "g">>],
       [key |-> <<"s", "a", "m", "s", "u", "n", "g">>,
        value |-> <<"S", "a", "m", "s", "u", "n", "g">>],
       [key |-> <<"l", "g", " ", "e", "l", "e", "c", "t", "r", "o", "n", "i", "c", "s">>,
        value |-> <<"L", "G">>],
       [key |-> <<"l", "g", " ", "d", "i", "s", "p", "l", "a", "y">>,
        value |-> <<"L", "G">>],
       [key |-> <<"l", "g">>,
        value |-> <<"L", "G">>],
       [key |-> <<"s", "o", "n", "y", " ", "p", "r", "o", "f", "e", "s", "s", "i", "o", "n", "a", "l">>,
        value |-> <<"S", "o", "n", "y">>],
       [key |-> <<"s", "o", "n", "y", " ", "c", "o", "r", "p", "o", "r", "a", "t", "i", "o", "n">>,
        value |-> <<"S", "o", "n", "y">>],
       [key |-> <<"s", "o", "n", "y">>,
        value |-> <<"S", "o", "n", "y">>],
       [key |-> <<"c", "r", "e", "s", "t", "r", "o", "n", " ", "e", "l", "e", "c", "t", "r", "o", "n", "i", "c", "s">>,
        value |-> <<"C", "r", "e", "s", "t", "r", "o", "n">>],
       [key |-> <<"c", "r", "e", "s", "t", "r", "o", "n">>,
        value |-> <<"C", "r", "e", "s", "t", "r", "o", "n">>],
       [key |-> <<"e", "x", "t", "r", "o", "n", " ", "e", "l", "e", "c", "t", "r", "o", "n", "i", "c", "s">>,
        value |-> <<"E", "x", "t", "r", "o", "n">>],
       [key |-> <<"e", "x", "t", "r", "o", "n">>,
        value |-> <<"E", "x", "t", "r", "o", "n">>],
       [key |-> <<"q", "s", "c", " ", "a", "u", "d", "i", "o">>,
        value |-> <<"Q", "S", "C">>],
       [key |-> <<"q", "s", "c", " ", "s", "y", "s", "t", "e", "m", "s">>,
        value |-> <<"Q", "S", "C">>],
       [key |-> <<"q", "-", "s", "y", "s">>,
        value |-> <<"Q", "S", "C">>],
       [key |-> <<"q", "s", "c">>,
        value |-> <<"Q", "S", "C">>],
       [key |-> <<"s", "h", "u", "r", "e", " ", "i", "n", "c">>,
        value |-> <<"S", "h", "u", "r", "e">>],
       [key |-> <<"s", "h", "u", "r", "e">>,
        value |-> <<"S", "h", "u", "r", "e">>],
       [key |-> <<"s", "e", "n", "n", "h", "e", "i", "s", "e", "r", " ", "e", "l", "e", "c", "t", "r", "o", "n", "i", "c">>,
        value |-> <<"S", "e", "n", "n", "h", "e", "i", "s", "e", "r">>],
       [key |-> <<"s", "e", "n", "n", "h", "e", "i", "s", "e", "r">>,
        value |-> <<"S", "e", "n", "n", "h", "e", "i", "s", "e", "r">>],
       [key |-> <<"b", "i", "a", "m", "p", " ", "s", "y", "s", "t", "e", "m", "s">>,
        value |-> <<"B", "i", "a", "m", "p">>],
       [key |-> <<"b", "i", "a", "m", "p">>,
        value |-> <<"B", "i", "a", "m", "p">>],
       [key |-> <<"k", "r", "a", "m", "e", "r", " ", "e", "l", "e", "c", "t", "r", "o", "n", "i", "c", "s">>,
        value |-> <<"K", "r", "a", "m", "e", "r">>],
       [key |-> <<"k", "r", "a", "m", "e", "r">>,
        value |-> <<"K", "r", "a", "m", "e", "r">>],
       [key |-> <<"p", "o", "l", "y", "c", "o", "m">>,
        value |-> <<"P", "o", "l", "y">>],
       [key |-> <<"p", "o", "l", "y">>,
        value |-> <<"P", "o", "l", "y">>],
       [key |-> <<"l", "o", "g", "i", "t", "e", "c", "h">>,
        value |-> <<"L", "o", "g", "i", "t", "e", "c", "h">>],
       [key |-> <<"l", "o", "g", "i", "t", "e", "c", "h", " ", "b", "u", "s", "i", "n", "e", "s", "s">>,
        value |-> <<"L", "o", "g", "i", "t", "e", "c", "h">>],
       [key |-> <<"y", "e", "a", "l", "i", "n", "k", " ", "n", "e", "t", "w", "o", "r", "k">>,
        value |-> <<"Y", "e", "a", "l", "i", "n", "k">>],
       [key |-> <<"y", "e", "a", "l", "i", "n", "k">>,
        value |-> <<"Y", "e", "a", "l", "i", "n", "k">>],
       [key |-> <<"c", "i", "s", "c", "o", " ", "s", "y", "s", "t", "e", "m", "s">>,
        value |-> <<"C", "i", "s", "c", "o">>],
       [key |-> <<"c", "i", "s", "c", "o">>,
        value |-> <<"C", "i", "s", "c", "o">>],
       [key |-> <<"b", "a", "r", "c", "o">>,
        value |-> <<"B", "a", "r", "c", "o">>],
       [key |-> <<"b", "a", "r", "c", "o", " ", "n", "v">>,
        value |-> <<"B", "a", "r", "c", "o">>] >>

\* CATEGORY_MAP
CATEGORY_MAP ==
    ("Display" :> "Display")
        @@ ("Displays" :> "Display")
        @@ ("Commercial Display" :> "Display")
        @@ ("Interactive Display" :> "Display")
        @@ ("Video Wall" :> "Display")
        @@ ("Audio - Microphones" :> "Microphone")
        @@ ("Microphones" :> "Microphone")
        @@ ("Microphone" :> "Microphone")
        @@ ("Audio - Speakers" :> "Speaker")
        @@ ("Speakers" :> "Speaker")
        @@ ("Speaker" :> "Speaker")
        @@ ("Audio - DSP & Amplification" :> "DSP & Amplification")
        @@ ("DSP" :> "DSP & Amplification")
        @@ ("Amplifier" :> "DSP & Amplification")
        @@ ("Amplifiers" :> "DSP & Amplification")
        @@ ("Video Conferencing & Cameras" :> "Video Conferencing")
        @@ ("Video Conferencing" :> "Video Conferencing")
        @@ ("Conferencing" :> "Video Conferencing")
        @@ ("Mounts & Racks" :> "Mounts & Racks")
        @@ ("Mount" :> "Mounts & Racks")
        @@ ("Rack" :> "Mounts & Racks")
        @@ ("Control" :> "Control")
        @@ ("Control System" :> "Control")
        @@ ("Connectivity" :> "Connectivity")
        @@ ("Cables" :> "Connectivity")

\* p[f] is truthy, for a property that holds a string, and for one that
\* holds a number
Truthy(p, f) == f \in DOMAIN p /\ p[f] # <<>>
TruthyNumber(p, f) == f \in DOMAIN p /\ p[f] # 0

\* step 2 with the lower-cased brand taken without trim()
normalizeBrand_untrimmed(brand) ==
    LET lowerBrand == stringToLowerCase(brand)
        finalBrand == IF \E k \in DOMAIN BRAND_MAP : BRAND_MAP[k].key = lowerBrand
                      THEN BRAND_MAP[CHOOSE k \in DOMAIN BRAND_MAP :
                                         BRAND_MAP[k].key = lowerBrand].value
                      ELSE brand
    IN IF finalBrand = brand THEN capitalizeFirst(brand) ELSE finalBrand

\* step 2, brand normalization: the value of finalBrand written to p.brand
normalizeBrand(brand) ==
    LET lowerBrand == trim(stringToLowerCase(brand))
        finalBrand == IF \E k \in DOMAIN BRAND_MAP : BRAND_MAP[k].key = lowerBrand
                      THEN BRAND_MAP[CHOOSE k \in DOMAIN BRAND_MAP :
                                         BRAND_MAP[k].key = lowerBrand].value
                      ELSE brand
    IN IF finalBrand = brand THEN capitalizeFirst(brand) ELSE finalBrand

\* step 3, category normalization: a key of CATEGORY_MAP that p.category
\* contains is looked for, but the category is replaced only when it is itself
\* a key, and a key contains itself
normalizeCategory(p) ==
    IF "category" \in DOMAIN p /\ p.category \in DOMAIN CATEGORY_MAP
    THEN [p EXCEPT !.category = CATEGORY_MAP[p.category]]
    ELSE p

\* step 4, price handling
handlePrice(p) ==
    IF ~TruthyNumber(p, "price") /\ ~TruthyNumber(p, "price_inr")
    THEN Spread(p, [price_estimate_required |-> TRUE, price_source |-> "estimated"])
    ELSE Spread(p, [price_source |-> "database"])

\* steps 2 to 4 on a record that has a brand
cleanProduct(p) ==
    handlePrice(normalizeCategory([p EXCEPT !.brand = normalizeBrand(p.brand)]))

\* `${x}` of p.model || p.awmdb_id || p.itemDescription
ModelOrDescription(p) ==
    IF Truthy(p, "model") THEN p.model
    ELSE IF Truthy(p, "awmdb_id") THEN p.awmdb_id
    ELSE IF "itemDescription" \in DOMAIN p THEN p.itemDescription
    ELSE <<"u", "n", "d", "e", "f", "i", "n", "e", "d">>

\* step 5: `${p.brand}-${...}`.toLowerCase(), of a cleaned record
uniqueKey(p) == stringToLowerCase(p.brand \o <<"-">> \o ModelOrDescription(p))

\* validProducts after products.forEach
validProducts(products) ==
    LET branded == SelectSeq(products, LAMBDA p : Truthy(p, "brand"))
        cleaned == [i \in DOMAIN branded |-> cleanProduct(branded[i])]
        indices == [i \in DOMAIN cleaned |-> i]
        pushed == SelectSeq(indices,
                      LAMBDA i : \A j \in 1..(i - 1) :
                                     uniqueKey(cleaned[j]) # uniqueKey(cleaned[i]))
    IN [k \in DOMAIN pushed |-> cleaned[pushed[k]]]

\* the raw records tried: aliased and unknown brands in several casings, a
\* record without brand and one with an empty brand, records without model
RawProducts ==
    {[brand |-> <<"S", "A", "M", "S", "U", "N", "G", " ", "E", "L", "E", "C", "T", "R", "O", "N", "I", "C", "S">>, model |-> <<"X", "1">>, price |-> 5],
     [brand |-> <<"s", "a", "m", "s", "u", "n", "g">>, model |-> <<"x", "1">>, category |-> "Displays"],
     [brand |-> <<"W", "e", "i", "r", "d", "b", "r", "a", "n", "d">>, model |-> <<"X", "1">>],
     [brand |-> <<"w", "e", "i", "r", "d", "b", "r", "a", "n", "d">>, model |-> <<"X", "1">>, price_inr |-> 7],
     [model |-> <<"X", "1">>, category |-> "Display"],
     [brand |-> <<>>, model |-> <<"X", "1">>],
     [brand |-> <<"S", "h", "u", "r", "e">>, description |-> <<"c", "e", "i", "l", "i", "n", "g">>],
     [brand |-> <<"S", "h", "u", "r", "e">>, description |-> <<"t", "a", "b", "l", "e">>],
     [brand |-> <<"S", "h", "u", "r", "e">>, awmdb_id |-> <<"A", "1">>, description |-> <<"t", "a", "b", "l", "e">>],
     [brand |-> <<"S", "h", "u", "r", "e">>, itemDescription |-> <<"t", "a", "b", "l", "e">>],
     [brand |-> <<"Q", "-", "S", "Y", "S">>, model |-> <<"X", "1">>],
     [brand |-> <<" ", "L", "G", " ">>, category |-> "Video Wall X"],
     [brand |-> <<"a", "-", "b">>, model |-> <<"c">>],
     [brand |-> <<"a">>, model |-> <<"b", "-", "c">>]}

MaxCatalogLen == 2

RawCatalogs == UNION {[1..n -> RawProducts] : n \in 0..MaxCatalogLen}

\* one run of the script over a raw catalog
Normalize ==
    /\ svc.pc = "idle"
    /\ \E products \in RawCatalogs :
          svc' = [pc |-> "done", op |-> "normalize", arg |-> products,
                  out |-> validProducts(products)]
    /\ UNCHANGED <<appVars, activityLog, users, bootVars, pageVars>>

NormalizerNext == Normalize \/ SvcReturns

NormalizerSpec == Init /\ [][NormalizerNext]_vars

NormalizeDone == svc.pc = "done" /\ svc.op = "normalize"

\* the raw records of a catalog that have a brand, cleaned, in catalog order
CleanedInput(products) ==
    LET branded == SelectSeq(products, LAMBDA p : Truthy(p, "brand"))
    IN [i \in DOMAIN branded |-> cleanProduct(branded[i])]

\* the first-seen records of a sequence under a key
FirstSeen(xs, Key(_)) ==
    LET indices == [i \in DOMAIN xs |-> i]
        first == SelectSeq(indices, LAMBDA i : \A j \in 1..(i - 1) : Key(xs[j]) # Key(xs[i]))
    IN [k \in DOMAIN first |-> xs[first[k]]]

\* the key of the claim: the normalized brand and the model (model or
\* awmdb_id) or, for a record with no model, the description, lower-cased
DedupKey(p) ==
    <<stringToLowerCase(p.brand),
      IF Truthy(p, "model") THEN <<"model", stringToLowerCase(p.model)>>
      ELSE IF Truthy(p, "awmdb_id") THEN <<"model", stringToLowerCase(p.awmdb_id)>>
      ELSE IF "description" \in DOMAIN p THEN <<"description", stringToLowerCase(p.description)>>
      ELSE <<"description", <<>> >> >>

\* C18, as stated: two records collapse if and only if they have the same
\* normalized brand and the same model (the same description when they have
\* no model), lower-cased; the first-seen record of each key is kept and the
\* output holds no two records of one key
C18_DedupByBrandAndModel ==
    NormalizeDone =>
        /\ svc.out = FirstSeen(CleanedInput(svc.arg), DedupKey)
        /\ \A i, j \in DOMAIN svc.out : DedupKey(svc.out[i]) = DedupKey(svc.out[j]) => i = j

\* the same with itemDescription, the property the script reads, as the
\* description
ItemDedupKey(p) ==
    <<stringToLowerCase(p.brand),
      IF Truthy(p, "model") THEN <<"model", stringToLowerCase(p.model)>>
      ELSE IF Truthy(p, "awmdb_id") THEN <<"model", stringToLowerCase(p.awmdb_id)>>
      ELSE IF "itemDescription" \in DOMAIN p
           THEN <<"description", stringToLowerCase(p.itemDescription)>>
      ELSE <<"description", <<>> >> >>

C18_DedupByItemDescription ==
    NormalizeDone => svc.out = FirstSeen(CleanedInput(svc.arg), ItemDedupKey)

\* the brand the claim gives a raw brand: its alias when the lower-cased,
\* trimmed brand is a key of the alias table, else the brand with its first
\* character upper-cased
AliasOrCapitalized(brand) ==
    LET aliases == {e \in Range(BRAND_MAP) : e.key = trim(stringToLowerCase(brand))}
    IN IF aliases # {} THEN (CHOOSE e \in aliases : TRUE).value
       ELSE <<charToUpperCase(brand[1])>> \o SubSeq(brand, 2, Len(brand))

\* C19: every record of the output has a non-empty brand, which is the alias
\* of the raw brand of a record of the input when the alias table has its
\* lower-cased, trimmed form, and else that raw brand with only its first
\* character upper-cased; a catalog of one record with a brand yields it,
\* and records without a brand yield nothing
C19_BrandNormalized ==
    NormalizeDone =>
        /\ \A k \in DOMAIN svc.out :
              /\ svc.out[k].brand # <<>>
              /\ \E i \in DOMAIN svc.arg :
                    /\ Truthy(svc.arg[i], "brand")
                    /\ svc.out[k].brand = AliasOrCapitalized(svc.arg[i].brand)
                    /\ \A f \in DOMAIN svc.arg[i] \ {"brand", "category"} :
                          f \in DOMAIN svc.out[k] /\ svc.out[k][f] = svc.arg[i][f]
        /\ Len(svc.out) <= Cardinality({i \in DOMAIN svc.arg : Truthy(svc.arg[i], "brand")})
        /\ (Len(svc.arg) = 1 /\ Truthy(svc.arg[1], "brand")) =>
              /\ Len(svc.out) = 1
              /\ svc.out[1].brand = AliasOrCapitalized(svc.arg[1].brand)

\* 'SAMSUNG ELECTRONICS' came out as 'Samsung' next to a record without brand,
\* which was dropped
C19_AliasedAndDropped ==
    /\ NormalizeDone
    /\ Len(svc.arg) = 2
    /\ "brand" \notin DOMAIN svc.arg[1]
    /\ "brand" \in DOMAIN svc.arg[2]
    /\ svc.arg[2].brand = <<"S", "A", "M", "S", "U", "N", "G", " ",
                            "E", "L", "E", "C", "T", "R", "O", "N", "I", "C", "S">>
    /\ Len(svc.out) = 1
    /\ svc.out[1].brand = <<"S", "a", "m", "s", "u", "n", "g">>

----------------------------------------------------------------------------
(* The bootstrap of the first administrator: createBootstrapAdmin of
   activityLogService.ts, called from several sessions. A call is suspended
   at each of its awaits, and the backend settles them one at a time. *)

Emails == {"root@allwave.io", "ops@allwave.io"}

\* the values Date.now() may give to `admin-${Date.now()}`
MaxAdminIds == 3
AdminIds == 1..MaxAdminIds

\* the record createBootstrapAdmin writes to the User table
BootstrapAdmin(now) ==
    [id |-> <<"admin-", now>>, role |-> "ADMIN", status |-> "ACTIVE", createdBy |-> "bootstrap"]

\* the value of isBootstrapped(): false when the list query fails or finds
\* no record
isBootstrapped(query) ==
    IF query = "reject" \/ bootstrapConfig = {} THEN FALSE
    ELSE (CHOOSE r \in bootstrapConfig : TRUE).isBootstrapped

BootDone(c, success, message) ==
    [pc |-> "done", email |-> bootCalls[c].email, success |-> success, message |-> message,
     afterBootstrap |-> bootCalls[c].afterBootstrap, created |-> bootCalls[c].created]

BootAt(c, pc) == [bootCalls[c] EXCEPT !.pc = pc]

\* createBootstrapAdmin is called: the secret is validated, then the call
\* awaits isBootstrapped(). afterBootstrap and created record, for the
\* properties, whether the configuration was already marked when the call
\* began and whether the call has created a User record
BootCall(c) ==
    /\ bootCalls[c].pc = "idle"
    /\ \E email \in Emails, secretValid \in BOOLEAN :
          LET started == [pc |-> "isBootstrapped", email |-> email,
                          afterBootstrap |-> isBootstrapped("ok"), created |-> FALSE]
          IN bootCalls' =
                 [bootCalls EXCEPT ![c] =
                     IF secretValid THEN started
                     ELSE [started EXCEPT !.pc = "done"]
                              @@ [success |-> FALSE, message |-> "Invalid bootstrap secret key"]]
    /\ UNCHANGED <<appVars, activityLog, users, svc, bootstrapConfig, cognitoUsers, pageVars>>

\* isBootstrapped() settles; the inputs of the form are valid
BootStatusSettles(c) ==
    /\ bootCalls[c].pc = "isBootstrapped"
    /\ \E query \in {"ok", "reject"} :
          bootCalls' =
              [bootCalls EXCEPT ![c] =
                  IF isBootstrapped(query)
                  THEN BootDone(c, FALSE, "Application already bootstrapped")
                  ELSE BootAt(c, "signUp")]
    /\ UNCHANGED <<appVars, activityLog, users, svc, bootstrapConfig, cognitoUsers, pageVars>>

\* signUp settles: a UsernameExistsException lets the call go on
BootSignUpSettles(c) ==
    /\ bootCalls[c].pc = "signUp"
    /\ \/ /\ bootCalls[c].email \notin cognitoUsers
          /\ cognitoUsers' = cognitoUsers \cup {bootCalls[c].email}
          /\ bootCalls' = [bootCalls EXCEPT ![c] = BootAt(c, "User.create")]
       \/ /\ bootCalls[c].email \in cognitoUsers
          /\ bootCalls' = [bootCalls EXCEPT ![c] = BootAt(c, "User.create")]
          /\ UNCHANGED cognitoUsers
       \/ /\ bootCalls' = [bootCalls EXCEPT ![c] =
                              BootDone(c, FALSE, "Failed to create login account")]
          /\ UNCHANGED cognitoUsers
    /\ UNCHANGED <<appVars, activityLog, users, svc, bootstrapConfig, pageVars>>

\* client.models.User.create settles: the backend rejects an id it already holds
BootUserCreateSettles(c) ==
    /\ bootCalls[c].pc = "User.create"
    /\ \E now \in AdminIds, write \in {"ok", "reject"} :
          IF write = "ok" /\ \A u \in users : u.id # BootstrapAdmin(now).id
          THEN /\ users' = users \cup {BootstrapAdmin(now)}
               /\ bootCalls' = [bootCalls EXCEPT ![c] =
                                   [bootCalls[c] EXCEPT !.pc = "createBootstrapConfig",
                                                        !.created = TRUE]]
          ELSE /\ bootCalls' = [bootCalls EXCEPT ![c] =
                                   BootDone(c, FALSE, "Failed to create admin user record in database")]
               /\ UNCHANGED users
    /\ UNCHANGED <<appVars, activityLog, svc, bootstrapConfig, cognitoUsers, pageVars>>

\* createBootstrapConfig settles: the record has the fixed id
\* 'bootstrap-config', so a second create is rejected
BootConfigSettles(c) ==
    /\ bootCalls[c].pc = "createBootstrapConfig"
    /\ \E write \in {"ok", "reject"} :
          IF write = "ok" /\ bootstrapConfig = {}
          THEN /\ bootstrapConfig' = {[id |-> "bootstrap-config", isBootstrapped |-> TRUE,
                                       bootstrappedBy |-> bootCalls[c].email]}
               /\ bootCalls' = [bootCalls EXCEPT ![c] =
                                   BootDone(c, TRUE, "Admin user created successfully!")]
          ELSE /\ bootCalls' = [bootCalls EXCEPT ![c] =
                                   BootDone(c, FALSE, "Failed to mark bootstrap as complete")]
               /\ UNCHANGED bootstrapConfig
    /\ UNCHANGED <<appVars, activityLog, users, svc, cognitoUsers, pageVars>>

\* the page shows the result; the form can be submitted again
BootReturns(c) ==
    /\ bootCalls[c].pc = "done"
    /\ bootCalls' = [bootCalls EXCEPT ![c] = [pc |-> "idle"]]
    /\ UNCHANGED <<appVars, activityLog, users, svc, bootstrapConfig, cognitoUsers, pageVars>>

\* a fresh deployment: no User record yet
BootInit ==
    /\ AppInit
    /\ activityLog = <<>>
    /\ users = {}
    /\ svc = SvcIdle
    /\ BootIdle
    /\ PageIdle

BootNext ==
    \E c \in Callers :
        \/ BootCall(c)
        \/ BootStatusSettles(c)
        \/ BootSignUpSettles(c)
        \/ BootUserCreateSettles(c)
        \/ BootConfigSettles(c)
        \/ BootReturns(c)

BootSpec == BootInit /\ [][BootNext]_vars

\* C20, as stated: over every interleaving of createBootstrapAdmin calls at
\* most one bootstrap admin User record is ever created, and a call made
\* once BootstrapConfig.isBootstrapped is true creates no user and does not
\* return success
C20_BootstrapAtMostOnce ==
    /\ Cardinality({u \in users : u.createdBy = "bootstrap"}) <= 1
    /\ \A c \in Callers :
          (bootCalls[c].pc # "idle" /\ bootCalls[c].afterBootstrap) =>
              /\ ~bootCalls[c].created
              /\ bootCalls[c].pc = "done" => ~bootCalls[c].success

\* the first half alone: at most one bootstrap admin record
C20_OneAdminRecord == Cardinality({u \in users : u.createdBy = "bootstrap"}) <= 1

\* the second half alone: a call begun after the configuration was marked
\* creates no user
C20_NoUserAfterBootstrap ==
    \A c \in Callers :
        (bootCalls[c].pc # "idle" /\ bootCalls[c].afterBootstrap) => ~bootCalls[c].created

\* what does hold: the configuration is marked at most once, and no call
\* begun after it was marked returns success
C20_MarkedOnce ==
    /\ Cardinality(bootstrapConfig) <= 1
    /\ \A c \in Callers :
          (bootCalls[c].pc = "done" /\ bootCalls[c].afterBootstrap) => ~bootCalls[c].success

----------------------------------------------------------------------------
(* AuthGate.tsx: checkAuthentication runs once after mount and is suspended at
   each of its awaits; the component renders from its three useState values.
   A User record is found by its email, which is its id in this model. *)

AuthEmails == {"u1", "admin"}

\* the User tables a sign-in may meet: each account absent or in any status
AuthTables ==
    {{[id |-> e, role |-> IF e = "admin" THEN "ADMIN" ELSE "USER", status |-> given[e]] :
        e \in {x \in AuthEmails : given[x] # "absent"}} :
     given \in [AuthEmails -> Statuses \cup {"absent"}]}

\* getUserByEmail: the record of the list with that email, null when there is
\* none or the list query fails
getUserByEmail(email, list) ==
    IF list = "reject" \/ ~ \E u \in users : u.id = email THEN Null
    ELSE Some(CHOOSE u \in users : u.id = email)

\* what the component returns
AuthGateRenders ==
    IF authGate.isLoading THEN "loading"
    ELSE IF authGate.error # Null THEN "Access Denied"
    ELSE IF ~authGate.isAuthenticated THEN "null"
    ELSE "children"

\* catch (err) { setIsAuthenticated(false) } finally { setIsLoading(false) }
AuthCaught == [authGate EXCEPT !.pc = "done", !.isAuthenticated = FALSE, !.isLoading = FALSE]

\* await getCurrentUser() settles
AuthCurrentUserSettles ==
    /\ authGate.pc = "mount"
    /\ \/ \E email \in AuthEmails :
             authGate' = [authGate EXCEPT !.pc = "getUserByEmail", !.email = Some(email)]
       \/ authGate' = AuthCaught
    /\ UNCHANGED <<appVars, activityLog, users, svc, bootVars,
                   bootStatus, productService, savedProject>>

\* await getUserByEmail(...) settles, then the two checks up to the next await
AuthUserDetailsSettle ==
    /\ authGate.pc = "getUserByEmail"
    /\ \E list \in {"ok", "reject"} :
          LET userDetails == getUserByEmail(authGate.email[1], list) IN
          authGate' =
              IF userDetails = Null
              THEN [authGate EXCEPT !.pc = "done", !.isLoading = FALSE,
                                    !.error = Some("User account not found")]
              ELSE [authGate EXCEPT !.userDetails = userDetails,
                                    !.pc = IF userDetails[1].status # "ACTIVE" THEN "signOut"
                                           ELSE "updateLastLogin"]
    /\ UNCHANGED <<appVars, activityLog, users, svc, bootVars,
                   bootStatus, productService, savedProject>>

\* await signOut() settles for an account that is not ACTIVE
AuthSignOutSettles ==
    /\ authGate.pc = "signOut"
    /\ \/ authGate' = [authGate EXCEPT !.pc = "done", !.isLoading = FALSE,
                                       !.error = Some(<<"Your account is",
                                                        authGate.userDetails[1].status>>)]
       \/ authGate' = AuthCaught
    /\ UNCHANGED <<appVars, activityLog, users, svc, bootVars,
                   bootStatus, productService, savedProject>>

\* updateLastLogin with its try/catch: the LOGIN record written, if any
updateLastLogin(userId, update, lg) ==
    IF update = "reject" THEN Null
    ELSE logActivity([action |-> "LOGIN", userId |-> userId], lg).created

\* await updateLastLogin(...) settles: it never throws
AuthLastLoginSettles ==
    /\ authGate.pc = "updateLastLogin"
    /\ \E update \in {"ok", "reject"}, lg \in LogOutcomes :
          /\ activityLog' = Logged(updateLastLogin(authGate.userDetails[1].id, update, lg))
          /\ Len(activityLog') <= MaxLogs
    /\ authGate' = [authGate EXCEPT !.pc = "done", !.isAuthenticated = TRUE,
                                    !.error = Null, !.isLoading = FALSE]
    /\ UNCHANGED <<appVars, users, svc, bootVars, bootStatus, productService, savedProject>>

AuthInit ==
    /\ AppInit
    /\ activityLog = <<>>
    /\ users \in AuthTables
    /\ svc = SvcIdle
    /\ BootIdle
    /\ PageIdle

AuthNext ==
    \/ AuthCurrentUserSettles
    \/ AuthUserDetailsSettle
    \/ AuthSignOutSettles
    \/ AuthLastLoginSettles

AuthSpec == AuthInit /\ [][AuthNext]_vars

\* the account checkAuthentication looked up is missing or not ACTIVE
AuthRefused ==
    /\ authGate.pc \in {"signOut", "done"}
    /\ authGate.email # Null
    /\ \/ authGate.userDetails = Null
       \/ authGate.userDetails[1].status \in {"INACTIVE", "SUSPENDED"}

\* C21, as stated: the children are rendered only after a User record of the
\* signed-in email with status ACTIVE was observed; when the record is
\* missing or INACTIVE or SUSPENDED the access-denied error is shown once the
\* check has ended, and the children never; a failure to record the last
\* login changes nothing
C21_ActiveOnlyAndDeniedOtherwise ==
    /\ AuthGateRenders = "children" =>
          authGate.userDetails # Null /\ authGate.userDetails[1].status = "ACTIVE"
    /\ AuthRefused => AuthGateRenders # "children"
    /\ (AuthRefused /\ authGate.pc = "done") => AuthGateRenders = "Access Denied"
    /\ (authGate.pc = "done" /\ authGate.userDetails # Null
            /\ authGate.userDetails[1].status = "ACTIVE") => AuthGateRenders = "children"

\* the part about the children alone
C21_ChildrenOnlyIfActive ==
    /\ AuthGateRenders = "children" =>
          authGate.userDetails # Null /\ authGate.userDetails[1].status = "ACTIVE"
    /\ AuthRefused => AuthGateRenders # "children"
    /\ (authGate.pc = "done" /\ authGate.userDetails # Null
            /\ authGate.userDetails[1].status = "ACTIVE") => AuthGateRenders = "children"

----------------------------------------------------------------------------
(* Who may change User records: the authorization of the User model
   (amplify/data/resource.ts), the user-management functions, which take the
   administrator's id and email as arguments, and the render of AppWrapper *)

\* .authorization(allow => [allow.authenticated().to([...]), allow.publicApiKey().to([...])])
UserModelAllows(signedIn, operation) ==
    IF signedIn THEN operation \in {"read", "create", "update", "delete"}
    ELSE operation \in {"read", "create"}

\* AppWrapper renders the dashboard and the create-user modal for
\* currentUser.role === 'ADMIN' only
AdminControlsShown(currentUser) == currentUser.role = "ADMIN"

\* the backend operation behind each function
BackendOperation ==
    [createUser |-> "create", updateUserRole |-> "update", updateUserStatus |-> "update",
     deleteUserAccount |-> "delete"]

\* a signed-in user calls a user-management function, from the administrator
\* controls or from the session's own data client; the backend settles it
RoleUserOp(caller, via, op, res) ==
    /\ svc.pc = "idle"
    /\ caller \in users /\ caller.status = "ACTIVE"
    /\ via = "AdminDashboard" => AdminControlsShown(caller)
    /\ LET allowed == UserModelAllows(TRUE, BackendOperation[op])
       IN /\ users' = IF allowed THEN res.users ELSE users
          /\ activityLog' = IF allowed THEN Logged(res.logged) ELSE activityLog
          /\ svc' = [pc |-> "done", op |-> op, caller |-> caller, via |-> via,
                     changed |-> users' # users]
    /\ Len(activityLog') <= MaxLogs
    /\ UNCHANGED <<appVars, bootVars, pageVars>>

RoleCreateUser ==
    \E caller \in users, via \in {"AdminDashboard", "client"},
       role \in Roles, db \in DbOutcomes, lg \in LogOutcomes :
        RoleUserOp(caller, via, "createUser", createUser(users, "u2", role, db, lg))

RoleUpdateUserRole ==
    \E caller \in users, via \in {"AdminDashboard", "client"},
       id \in AuthEmails, role \in Roles, db \in DbOutcomes, lg \in LogOutcomes :
        RoleUserOp(caller, via, "updateUserRole", updateUserRole(users, id, role, db, lg))

RoleUpdateUserStatus ==
    \E caller \in users, via \in {"AdminDashboard", "client"},
       id \in AuthEmails, st \in Statuses, db \in DbOutcomes, lg \in LogOutcomes :
        RoleUserOp(caller, via, "updateUserStatus", updateUserStatus(users, id, st, db, lg))

RoleDeleteUserAccount ==
    \E caller \in users, via \in {"AdminDashboard", "client"},
       id \in AuthEmails, db \in DbOutcomes, lg \in LogOutcomes :
        RoleUserOp(caller, via, "deleteUserAccount", deleteUserAccount(users, id, db, lg))

\* an administrator and a plain user, both active
RoleInit ==
    /\ AppInit
    /\ activityLog = <<>>
    /\ users = InitialUsers \cup {[id |-> "u1", role |-> "USER", status |-> "ACTIVE"]}
    /\ svc = SvcIdle
    /\ BootIdle
    /\ PageIdle

RoleNext ==
    \/ RoleCreateUser
    \/ RoleUpdateUserRole
    \/ RoleUpdateUserStatus
    \/ RoleDeleteUserAccount
    \/ SvcReturns

RoleSpec == RoleInit /\ [][RoleNext]_vars

\* C22, as stated: no operation performed by a signed-in user whose role is
\* USER changes the set of User records or any user's role or status
C22_OnlyAdminsChangeUsers ==
    (svc.pc = "done" /\ "caller" \in DOMAIN svc /\ svc.caller.role = "USER") => ~svc.changed

\* through the administrator controls of AppWrapper alone it does hold
C22_ControlsForAdminsOnly ==
    (svc.pc = "done" /\ "caller" \in DOMAIN svc /\ svc.via = "AdminDashboard")
        => svc.caller.role = "ADMIN"

\* ---------------------------------------------------------------------------
\* Prices of the export (src/utils/exportToXlsx.ts) and the margins they use.
\* Money is counted in hundredths, the exchange rate in tenths, the margin in
\* per cent.  svc holds the global margin of App, one line item, the selected
\* currency and the last price the export computed.
\* ---------------------------------------------------------------------------
Margins == {-50, 0, 10}

UnitPrices == {0, 1, 999}

Quantities == {1, 2, 3}

\* selectedCurrency === 'INR' ? (rates['INR'] || 83.5) : 1, in tenths
usdToInrRate(selectedCurrency) ==
    IF selectedCurrency = "INR" THEN 835 ELSE 10

\* Math.round of num/den: the nearest integer, a half going up
RoundDiv(num, den) == (2 * num + den) \div (2 * den)

\* item.margin !== undefined ? item.margin : margin
itemMargin(item, margin) ==
    IF "margin" \in DOMAIN item THEN item.margin.v ELSE margin

\* the mapping of one item in exportToXlsx: finalUnitPrice and itemTotal
mappedItem(item, margin, selectedCurrency) ==
    LET finalUnitPrice ==
            RoundDiv(item.unitPrice * usdToInrRate(selectedCurrency)
                        * (100 + itemMargin(item, margin)), 1000)
    IN [price |-> finalUnitPrice, quantity |-> item.quantity,
        itemTotal |-> finalUnitPrice * item.quantity,
        usedMargin |-> itemMargin(item, margin)]

PriceInit ==
    /\ AppInit
    /\ activityLog = <<>>
    /\ users = InitialUsers
    /\ svc \in {[pc |-> "price", margin |-> 0, selectedCurrency |-> "INR",
                  item |-> [unitPrice |-> u, quantity |-> q], out |-> Null] :
                 u \in UnitPrices, q \in Quantities}
    /\ BootIdle
    /\ PageIdle

\* onMarginChange={setMargin}: the global margin becomes the number handed in
PriceSetMargin(m) ==
    /\ svc.pc = "price"
    /\ svc' = [svc EXCEPT !.margin = m, !.out = Null]
    /\ UNCHANGED <<appVars, activityLog, users, bootVars, pageVars>>

\* handleBoqItemUpdate(index, {margin: m}) on the item
PriceItemMargin(m) ==
    /\ svc.pc = "price"
    /\ svc' = [svc EXCEPT !.item = Spread(@, ClampMargin([margin |-> Num(m)])),
                          !.out = Null]
    /\ UNCHANGED <<appVars, activityLog, users, bootVars, pageVars>>

\* the currency selector
PriceSetCurrency(c) ==
    /\ svc.pc = "price"
    /\ svc' = [svc EXCEPT !.selectedCurrency = c, !.out = Null]
    /\ UNCHANGED <<appVars, activityLog, users, bootVars, pageVars>>

\* exportToXlsx(rooms, clientDetails, margin, branding, selectedCurrency, ..)
PriceExport ==
    /\ svc.pc = "price"
    /\ svc' = [svc EXCEPT !.out = Some(mappedItem(svc.item, svc.margin,
                                                  svc.selectedCurrency))]
    /\ UNCHANGED <<appVars, activityLog, users, bootVars, pageVars>>

PriceNext ==
    \/ \E m \in Margins : PriceSetMargin(m)
    \/ \E m \in Margins : PriceItemMargin(m)
    \/ \E c \in {"USD", "INR"} : PriceSetCurrency(c)
    \/ PriceExport

PriceSpec == PriceInit /\ [][PriceNext]_vars

\* C23: every exported price uses the item's own margin when it has one and
\* the global margin otherwise, takes a negative margin for 0, is therefore
\* never below unitPrice * currencyRate, and the line total is the final unit
\* price times the quantity.
C23_NegativeMarginIsZero ==
    (svc.pc = "price" /\ svc.out # Null) =>
        LET item == svc.item
            o == svc.out[1]
            effective == IF "margin" \in DOMAIN item THEN item.margin.v ELSE svc.margin
            clamped == IF effective < 0 THEN 0 ELSE effective
            rate == usdToInrRate(svc.selectedCurrency)
        IN /\ o.price = RoundDiv(item.unitPrice * rate * (100 + clamped), 1000)
           /\ o.price * 10 >= item.unitPrice * rate
           /\ o.itemTotal = o.price * item.quantity

\* C23, the part the export keeps: the margin used is the item's own when it
\* has one and the global margin otherwise, and the line total is the final
\* unit price times the quantity.
C23_ItemMarginElseGlobal ==
    (svc.pc = "price" /\ svc.out # Null) =>
        /\ svc.out[1].usedMargin =
               (IF "margin" \in DOMAIN svc.item THEN svc.item.margin.v ELSE svc.margin)
        /\ svc.out[1].itemTotal = svc.out[1].price * svc.item.quantity
        /\ ("margin" \in DOMAIN svc.item => svc.item.margin.v >= 0)

\* C24: the list of allowed categories generateBoq builds holds no label
\* twice, whatever requiredSystems is, a list repeating a key included
C24_NoLabelTwice ==
    CategoriesDone =>
        \A i, j \in DOMAIN svc.out : svc.out[i] = svc.out[j] => i = j

\* ---------------------------------------------------------------------------
\* Refinement of the BOQ of a room (handleRefineBoq, refineBoq), with every
\* answer of the oracle and the edits the user may make while it is in flight.
\* ---------------------------------------------------------------------------

\* a room whose BOQ was generated: two items with their totals
RefineInit ==
    /\ rooms = <<Spread(NewRoom(1, RoomName("Room", 1), "default"),
                        [boq |-> Some(<<ShureMic, GoodMount>>)])>>
    /\ activeRoomId = Some(1)
    /\ isRefining = FALSE
    /\ roomToDelete = Null
    /\ isConfirmModalOpen = FALSE
    /\ calls = <<>>
    /\ nextRoomId = 2
    /\ events = 0
    /\ activityLog = <<>>
    /\ users = InitialUsers
    /\ svc = SvcIdle
    /\ BootIdle
    /\ PageIdle

\* the promise of generateContent of a refineBoq call settles
RefineOracleSettles(k) ==
    /\ k \in DOMAIN calls
    /\ calls[k].oracle = Null
    /\ \E o \in BoqOutcomes : calls' = [calls EXCEPT ![k].oracle = Some(o)]
    /\ UNCHANGED <<events, rooms, activeRoomId, isRefining, roomToDelete, isConfirmModalOpen,
                   nextRoomId, activityLog, users, svc, bootVars, pageVars>>

RefineNext ==
    \/ handleRefineBoq
    \/ \E k \in 1..MaxCalls : RefineOracleSettles(k)
    \/ \E k \in 1..MaxCalls : RefineResumes(k)
    \/ handleBoqItemAdd
    \/ handleBoqItemDelete(1)
    \/ handleDeleteRequest(1)
    \/ handleConfirmDelete

RefineSpec == RefineInit /\ [][RefineNext]_vars

\* the item the room holds for the item `sent` by the oracle: every property
\* as sent, but for totalPrice, which is quantity times unitPrice
SentWithTotal(held, sent) ==
    /\ DOMAIN held = DOMAIN sent \cup {"totalPrice"}
    /\ \A f \in DOMAIN sent \ {"totalPrice"} : held[f] = sent[f]
    /\ IF {"quantity", "unitPrice"} \subseteq DOMAIN sent
       THEN /\ ~held.totalPrice.nan
            /\ held.totalPrice.v = sent.quantity.v * sent.unitPrice.v
       ELSE held.totalPrice.nan

\* C25: when a refine succeeds, the BOQ of its room is the array the oracle
\* returned, item for item in the oracle's order, with every totalPrice
\* recomputed as quantity times unitPrice: the old BOQ is replaced as a whole
C25_RefineReplacesBoq ==
    [][\A k \in 1..MaxCalls :
          (CallEnds(k, "refine") /\ calls[k].oracle[1].kind = "text"
                /\ calls[k].oracle[1].payload.json = "array")
              => LET sent == calls[k].oracle[1].payload.items
                     id == calls[k].activeRoomId
                 IN /\ HasRoom(rooms', id)
                    /\ RoomOf(rooms', id).boq # Null
                    /\ LET held == RoomOf(rooms', id).boq[1]
                       IN /\ Len(held) = Len(sent)
                          /\ \A i \in DOMAIN sent : SentWithTotal(held[i], sent[i])]_vars

\* C25 witness: the refine of the room that held a microphone and a mount has
\* ended, and the room holds the oracle's display and microphone, in that
\* order, and no mount
C25_OldBoqReplaced ==
    /\ calls = <<>>
    /\ ~isRefining
    /\ HasRoom(rooms, Some(1))
    /\ RoomOf(rooms, Some(1)).boq = Some(<<GoodDisplay, ShureMic>>)

\* ---------------------------------------------------------------------------
\* The bootstrap-status check of Root (part_004) and of App (App.tsx): each
\* calls getBootstrapStatus() once when it mounts.  bootStatus keeps, for each
\* of the two, where its check stands, its status, and whether a query of the
\* check failed.
\* ---------------------------------------------------------------------------
StatusPages == {"Root", "App"}

\* setStatus('app') in Root, setAppState('ready') in App
StatusProceed(p) == IF p = "Root" THEN "app" ELSE "ready"

\* the deployments the check may meet: bootstrapped or not, with or without
\* User records
StatusInit ==
    /\ AppInit
    /\ activityLog = <<>>
    /\ users \in {{}, InitialUsers}
    /\ svc = SvcIdle
    /\ bootstrapConfig \in {{}, {[id |-> "bootstrap-config", isBootstrapped |-> TRUE,
                                  bootstrappedBy |-> "admin"]}}
    /\ cognitoUsers = {}
    /\ bootCalls = [c \in Callers |-> [pc |-> "idle"]]
    /\ PageIdle

\* useEffect(() => { checkStatus() }, []): getBootstrapStatus awaits
\* isBootstrapped()
StatusCheck(p) ==
    /\ bootStatus[p].pc = "mount"
    /\ bootStatus' = [bootStatus EXCEPT ![p] =
                         [pc |-> "isBootstrapped", status |-> bootStatus[p].status]]
    /\ UNCHANGED <<appVars, activityLog, users, svc, bootVars, authGate, productService,
                   savedProject>>

\* isBootstrapped() settles: getBootstrapStatus goes on to User.list
StatusConfigSettles(p) ==
    /\ bootStatus[p].pc = "isBootstrapped"
    /\ \E query \in {"ok", "reject"} :
          bootStatus' = [bootStatus EXCEPT ![p] =
                            [pc |-> "User.list", status |-> bootStatus[p].status,
                             bootstrapped |-> isBootstrapped(query),
                             failed |-> query = "reject"]]
    /\ UNCHANGED <<appVars, activityLog, users, svc, bootVars, authGate, productService,
                   savedProject>>

\* what getBootstrapStatus returns once User.list settled: its catch answers
\* a rejection with { isBootstrapped: false, userCount: 0 }
getBootstrapStatus(bootstrapped, query) ==
    IF query = "reject" THEN [isBootstrapped |-> FALSE, userCount |-> 0]
    ELSE [isBootstrapped |-> bootstrapped, userCount |-> Cardinality(users)]

\* the try of checkStatus / checkBootstrapStatus after its await
checkStatus(p, result) ==
    IF ~result.isBootstrapped /\ result.userCount = 0 THEN "bootstrap"
    ELSE StatusProceed(p)

\* User.list settles, getBootstrapStatus returns and the page sets its status
StatusUsersSettle(p) ==
    /\ bootStatus[p].pc = "User.list"
    /\ \E query \in {"ok", "reject"} :
          bootStatus' = [bootStatus EXCEPT ![p] =
                            [pc |-> "done",
                             status |-> checkStatus(p,
                                 getBootstrapStatus(bootStatus[p].bootstrapped, query)),
                             failed |-> bootStatus[p].failed \/ query = "reject"]]
    /\ UNCHANGED <<appVars, activityLog, users, svc, bootVars, authGate, productService,
                   savedProject>>

StatusNext ==
    \E p \in StatusPages :
        \/ StatusCheck(p)
        \/ StatusConfigSettles(p)
        \/ StatusUsersSettle(p)

StatusSpec == StatusInit /\ [][StatusNext]_vars

\* C26: a check in which the BootstrapConfig query or the User query failed
\* ends in 'app' (Root) and 'ready' (App), never on the bootstrap page; the
\* bootstrap page shows only when the backend reported that nothing is
\* bootstrapped and that there is no user
C26_FailedCheckFallsBackToApp ==
    \A p \in StatusPages :
        bootStatus[p].pc = "done" =>
            /\ bootStatus[p].failed => bootStatus[p].status = StatusProceed(p)
            /\ bootStatus[p].status = "bootstrap" =>
                  /\ ~bootStatus[p].failed
                  /\ ~isBootstrapped("ok")
                  /\ users = {}

\* C26, without failures: when both queries answered, the bootstrap page shows
\* exactly when no configuration is marked bootstrapped and no user exists
C26_AnsweredCheckDecides ==
    \A p \in StatusPages :
        (bootStatus[p].pc = "done" /\ ~bootStatus[p].failed) =>
            (bootStatus[p].status = "bootstrap") = (~isBootstrapped("ok") /\ users = {})

\* ---------------------------------------------------------------------------
\* ProductService.loadProducts (productService.ts).  productService is the
\* singleton: products, isLoading and loadPromise, a promise being the number
\* of the fetch behind it and its state.  svc counts the fetches issued and
\* keeps what the properties need of the past: the fetch in flight, the
\* promise each caller got, whether a load has succeeded, whether the last
\* load failed.
\* ---------------------------------------------------------------------------
MaxFetches == 4

\* what /productDatabase.json may hold: an array, empty or not
CatalogFiles == {<<>>, <<[brand |-> "Shure", model |-> "MXA920"]>>}

Promise(id, state) == [id |-> id, state |-> state]

LoadInit ==
    /\ AppInit
    /\ activityLog = <<>>
    /\ users = InitialUsers
    /\ svc = [pc |-> "load", fetches |-> 0, pending |-> {},
              got |-> [c \in Callers |-> Null], loaded |-> FALSE, failed |-> FALSE]
    /\ BootIdle
    /\ PageIdle

\* loadProducts(), called by c: the cached catalog, the promise in flight, or
\* a new fetch
loadProducts(c) ==
    /\ svc.pc = "load"
    /\ IF Len(productService.products) > 0
       THEN /\ svc' = [svc EXCEPT !.got[c] = Some(Promise(0, "fulfilled")), !.failed = FALSE]
            /\ UNCHANGED productService
       ELSE IF productService.loadPromise # Null
       THEN /\ svc' = [svc EXCEPT !.got[c] = productService.loadPromise, !.failed = FALSE]
            /\ UNCHANGED productService
       ELSE /\ svc.fetches < MaxFetches
            /\ productService' =
                   [productService EXCEPT
                       !.isLoading = TRUE,
                       !.loadPromise = Some(Promise(svc.fetches + 1, "pending"))]
            /\ svc' = [svc EXCEPT !.fetches = @ + 1,
                                  !.pending = @ \cup {svc.fetches + 1},
                                  !.got[c] = Some(Promise(svc.fetches + 1, "pending")),
                                  !.failed = FALSE]
    /\ UNCHANGED <<appVars, activityLog, users, bootVars, authGate, bootStatus, savedProject>>

\* the promises the callers hold of fetch id settle
Settled(id, state) ==
    [c \in Callers |->
        IF svc.got[c] # Null /\ svc.got[c][1].id = id THEN Some(Promise(id, state))
        ELSE svc.got[c]]

\* the fetch answers ok with JSON: products = data, isLoading = false
FetchResolves(id) ==
    /\ svc.pc = "load"
    /\ id \in svc.pending
    /\ \E data \in CatalogFiles :
          productService' =
              [productService EXCEPT
                  !.products = data,
                  !.isLoading = FALSE,
                  !.loadPromise = IF @ # Null /\ @[1].id = id
                                  THEN Some(Promise(id, "fulfilled")) ELSE @]
    /\ svc' = [svc EXCEPT !.pending = @ \ {id}, !.got = Settled(id, "fulfilled"),
                          !.loaded = TRUE, !.failed = FALSE]
    /\ UNCHANGED <<appVars, activityLog, users, bootVars, authGate, bootStatus, savedProject>>

\* the catch without its `this.loadPromise = null`: the rejected promise stays
FetchFails_keepsPromise(id) ==
    /\ svc.pc = "load"
    /\ id \in svc.pending
    /\ productService' =
           [productService EXCEPT
               !.isLoading = FALSE,
               !.loadPromise = IF @ # Null /\ @[1].id = id
                               THEN Some(Promise(id, "rejected")) ELSE @]
    /\ svc' = [svc EXCEPT !.pending = @ \ {id}, !.got = Settled(id, "rejected"),
                          !.failed = TRUE]
    /\ UNCHANGED <<appVars, activityLog, users, bootVars, authGate, bootStatus, savedProject>>

\* the fetch rejects, answers not ok, or answers with what is no JSON: the
\* catch sets isLoading = false and loadPromise = null and throws again
FetchFails(id) ==
    /\ svc.pc = "load"
    /\ id \in svc.pending
    /\ productService' = [productService EXCEPT !.isLoading = FALSE, !.loadPromise = Null]
    /\ svc' = [svc EXCEPT !.pending = @ \ {id}, !.got = Settled(id, "rejected"),
                          !.failed = TRUE]
    /\ UNCHANGED <<appVars, activityLog, users, bootVars, authGate, bootStatus, savedProject>>

LoadNext ==
    \/ \E c \in Callers : loadProducts(c)
    \/ \E id \in 1..MaxFetches : FetchResolves(id)
    \/ \E id \in 1..MaxFetches : FetchFails(id)

LoadSpec == LoadInit /\ [][LoadNext]_vars

\* at most one fetch is in flight, and every caller whose promise is pending
\* holds the promise of that fetch, which is loadPromise
SharedPromise ==
    /\ Cardinality(svc.pending) <= 1
    /\ \A c \in Callers :
          (svc.got[c] # Null /\ svc.got[c][1].state = "pending")
              => /\ svc.got[c][1].id \in svc.pending
                 /\ productService.loadPromise = svc.got[c]

C28_ValidationResultIsCurrent ==
    [][\A id \in RoomIds :
          (HasRoom(rooms, Some(id)) /\ HasRoom(rooms', Some(id))) =>
              LET was == RoomOf(rooms, Some(id))
                  now == RoomOf(rooms', Some(id))
              IN /\ (now.boq # was.boq \/ now.answers # was.answers)
                       => now.validationResult = Null
                 /\ (now.validationResult # Null
                        /\ now.validationResult # was.validationResult)
                       => \E k \in DOMAIN calls :
                             /\ CallEnds(k, "validate")
                             /\ calls[k].activeRoomId = Some(id)
                             /\ now.boq = Some(calls[k].arg)
                             /\ now.answers = RoomOf(calls[k].rooms, Some(id)).answers]_vars

\* ---------------------------------------------------------------------------
\* Saving and loading a project (handleSaveProject, loadCloudProject) among
\* the room handlers and the generate calls.  savedProject is the rooms
\* property of the Project record in the cloud, if one was saved.
\* ---------------------------------------------------------------------------

\* JSON.stringify of a number: NaN is written as null
JsonNumber(n) == IF n.nan THEN JsonNull ELSE n

NumberFields == {"quantity", "unitPrice", "totalPrice", "margin"}

\* what JSON.parse gives back of JSON.stringify(rooms): every property of
\* every room as it is, isLoading included, but for the numbers that are NaN
JsonRoundTrip(rs) ==
    [i \in DOMAIN rs |->
        IF rs[i].boq = Null THEN rs[i]
        ELSE [rs[i] EXCEPT !.boq =
                 Some([j \in DOMAIN rs[i].boq[1] |->
                          [f \in DOMAIN rs[i].boq[1][j] |->
                              IF f \in NumberFields THEN JsonNumber(rs[i].boq[1][j][f])
                              ELSE rs[i].boq[1][j][f]]])]]

\* handleSaveProject: Project.create({ ..., rooms: JSON.stringify(rooms) })
\* writes the record or fails
handleSaveProject ==
    /\ UserEvent
    /\ \E write \in {"ok", "reject"} :
          savedProject' = IF write = "ok" THEN Some(JsonRoundTrip(rooms)) ELSE savedProject
    /\ UNCHANGED <<rooms, activeRoomId, isRefining, roomToDelete, isConfirmModalOpen, calls,
                   nextRoomId, activityLog, users, svc, bootVars, authGate, bootStatus,
                   productService>>

\* loadCloudProject(project): setRooms(JSON.parse(project.rooms)), and the
\* first loaded room becomes the active one
loadCloudProject ==
    /\ UserEvent
    /\ savedProject # Null
    /\ rooms' = savedProject[1]
    /\ activeRoomId' = IF Len(rooms') > 0 THEN Some(rooms'[1].id) ELSE activeRoomId
    /\ UNCHANGED <<isRefining, roomToDelete, isConfirmModalOpen, calls, nextRoomId,
                   activityLog, users, svc, bootVars, pageVars>>

ProjectNext ==
    \/ \E t \in {"blank", "template"} : handleAddRoom(t)
    \/ \E id \in RoomIds : handleDuplicateRoom(id)
    \/ \E id \in RoomIds : handleDeleteRequest(id)
    \/ handleConfirmDelete
    \/ handleGenerateBoq
    \/ \E k \in 1..MaxCalls : OracleSettles(k)
    \/ \E k \in 1..MaxCalls : GenerateResumes(k)
    \/ handleSaveProject
    \/ loadCloudProject

ProjectSpec == Init /\ [][ProjectNext]_vars

\* C29: a room has isLoading set only while a generateBoq call for it is in
\* flight, after every sequence of adding, duplicating and deleting rooms,
\* generating, saving and loading a project
C29_LoadingOnlyInFlight ==
    \A i \in DOMAIN rooms :
        rooms[i].isLoading =>
            \E k \in DOMAIN calls :
                /\ calls[k].kind = "generate"
                /\ calls[k].activeRoomId = Some(rooms[i].id)

\* the ids of the rooms, in their order
RoomList(rs) == [i \in DOMAIN rs |-> rs[i].id]

\* C30: the step in which a generate, validate or refine call ends, with
\* success or failure, leaves the list of rooms as it is: no room that was
\* deleted while the call was in flight comes back, no room that was added or
\* duplicated meanwhile is lost
C30_CallEndKeepsRoomList ==
    [][\A k \in 1..MaxCalls :
          (CallEnds(k, "generate") \/ CallEnds(k, "validate") \/ CallEnds(k, "refine"))
              => RoomList(rooms') = RoomList(rooms)]_vars

====
